---- MODULE Spec2Model ----
(***************************************************************************)
(* Conversational orchestration core of the task assistant:                *)
(*   - the directive grammar (regular expressions of agent.py and          *)
(*     chatgpt_agent.py), computed on character sequences;                 *)
(*   - the two stream buffers (ChatGPTAgent.process feeding                *)
(*     AIAgent.handle_task_input), the extractor and the dispatcher;       *)
(*   - the task store operations of database.py;                           *)
(*   - the model router of AIAgent.process_input.                          *)
(* A text is a sequence of strings.  Every character that a regular        *)
(* expression, startswith, index or strip looks at is an element of its    *)
(* own; a run of inert literal text of a fixed-format message may be one   *)
(* longer element.                                                         *)
(***************************************************************************)
EXTENDS Integers, Sequences, FiniteSets, TLC

\* ------------------------------------------------------------------ bounds
MaxDeltas == 3
MaxOps == 3
MaxChunks == 2
MaxTasks == 4
MaxCount == 3

\* ------------------------------------------------------- character classes
Digits == {"0", "1", "2", "3", "4", "5", "6", "7", "8", "9"}

Letters ==
    {"a", "b", "c", "d", "e", "f", "g", "h", "i", "j", "k", "l", "m",
     "n", "o", "p", "q", "r", "s", "t", "u", "v", "w", "x", "y", "z",
     "A", "B", "C", "D", "E", "F", "G", "H", "I", "J", "K", "L", "M",
     "N", "O", "P", "Q", "R", "S", "T", "U", "V", "W", "X", "Y", "Z"}

\* \w of Python's re
WordChars == Letters \cup Digits \cup {"_"}

\* whitespace removed by str.strip()
Whitespace == {" ", "\n", "\t"}

\* ------------------------------------------------------------ text helpers
\* first index >= i of element c in s, 0 when absent (str.index / `in`)
IndexFrom(s, c, i) ==
    LET First(hits) ==
            IF hits = {} THEN 0 ELSE CHOOSE j \in hits : \A k \in hits : j <= k
    IN First({j \in i..Len(s) : s[j] = c})

IndexOf(s, c) == IndexFrom(s, c, 1)

Contains(s, c) == IndexOf(s, c) # 0

\* str.startswith
StartsWith(s, p) ==
    /\ Len(s) >= Len(p)
    /\ SubSeq(s, 1, Len(p)) = p

AllIn(s, cls) == \A i \in 1..Len(s) : s[i] \in cls

RECURSIVE Concat(_)
\* "".join(fragments)
Concat(ss) == IF ss = <<>> THEN <<>> ELSE Head(ss) \o Concat(Tail(ss))

RECURSIVE LStrip(_)
LStrip(s) ==
    IF s # <<>> /\ Head(s) \in Whitespace THEN LStrip(Tail(s)) ELSE s

RECURSIVE RStrip(_)
RStrip(s) ==
    IF s # <<>> /\ s[Len(s)] \in Whitespace
    THEN RStrip(SubSeq(s, 1, Len(s) - 1))
    ELSE s

\* str.strip()
Strip(s) == RStrip(LStrip(s))

IsPrefix(p, s) == StartsWith(s, p)

\* ------------------------------------------------------ directive grammar
sACTION == <<"[", "A", "C", "T", "I", "O", "N", ":">>
sTaskId == <<"t", "a", "s", "k", "_", "i", "d">>
sCreateTask == <<"c", "r", "e", "a", "t", "e", "_", "t", "a", "s", "k">>
sProfile == <<"p", "r", "o", "f", "i", "l", "e">>

NoMatch == [ok |-> FALSE, g |-> <<>>]

\* text between "[ACTION:" and the closing "]" of a candidate
Body(cand) == SubSeq(cand, Len(sACTION) + 1, Len(cand) - 1)

\* a candidate runs from a "[" to the first "]" after it; no pattern can
\* match across a "]" because every class of the grammar excludes it
IsCandidate(cand) ==
    /\ StartsWith(cand, sACTION)
    /\ IndexOf(cand, "]") = Len(cand)

\* \[ACTION:(\w+):(\d+):([^\]]*)\]
PatNumeric(cand) ==
    LET Groups(b, i, r, j) ==
            IF j < 2 \/ ~AllIn(SubSeq(r, 1, j - 1), Digits) THEN NoMatch
            ELSE [ok |-> TRUE,
                  g |-> <<SubSeq(b, 1, i - 1),
                          SubSeq(r, 1, j - 1),
                          SubSeq(r, j + 1, Len(r))>>]
        Ids(b, i, r) == Groups(b, i, r, IndexOf(r, ":"))
        Type(b, i) ==
            IF i < 2 \/ ~AllIn(SubSeq(b, 1, i - 1), WordChars) THEN NoMatch
            ELSE Ids(b, i, SubSeq(b, i + 1, Len(b)))
        InBody(b) == Type(b, IndexOf(b, ":"))
    IN IF ~IsCandidate(cand) THEN NoMatch ELSE InBody(Body(cand))

\* \[ACTION:(\w+):task_id:([^\]:]+):([^\]]*)\]
PatNamed(cand) ==
    LET Groups(b, i, v, j) ==
            IF j < 2 THEN NoMatch
            ELSE [ok |-> TRUE,
                  g |-> <<SubSeq(b, 1, i - 1),
                          SubSeq(v, 1, j - 1),
                          SubSeq(v, j + 1, Len(v))>>]
        Value(b, i, v) == Groups(b, i, v, IndexOf(v, ":"))
        Key(b, i, r) ==
            IF ~StartsWith(r, sTaskId \o <<":">>) THEN NoMatch
            ELSE Value(b, i, SubSeq(r, Len(sTaskId) + 2, Len(r)))
        Type(b, i) ==
            IF i < 2 \/ ~AllIn(SubSeq(b, 1, i - 1), WordChars) THEN NoMatch
            ELSE Key(b, i, SubSeq(b, i + 1, Len(b)))
        InBody(b) == Type(b, IndexOf(b, ":"))
    IN IF ~IsCandidate(cand) THEN NoMatch ELSE InBody(Body(cand))

\* \[ACTION:(\w+):task_id:([^\]]*)\]
PatSimple(cand) ==
    LET Key(b, i, r) ==
            IF ~StartsWith(r, sTaskId \o <<":">>) THEN NoMatch
            ELSE [ok |-> TRUE,
                  g |-> <<SubSeq(b, 1, i - 1),
                          SubSeq(r, Len(sTaskId) + 2, Len(r))>>]
        Type(b, i) ==
            IF i < 2 \/ ~AllIn(SubSeq(b, 1, i - 1), WordChars) THEN NoMatch
            ELSE Key(b, i, SubSeq(b, i + 1, Len(b)))
        InBody(b) == Type(b, IndexOf(b, ":"))
    IN IF ~IsCandidate(cand) THEN NoMatch ELSE InBody(Body(cand))

\* \[ACTION:create_task:([^\]]*)\]
PatCreate(cand) ==
    LET InBody(b) ==
            IF ~StartsWith(b, sCreateTask \o <<":">>) THEN NoMatch
            ELSE [ok |-> TRUE,
                  g |-> <<SubSeq(b, Len(sCreateTask) + 2, Len(b))>>]
    IN IF ~IsCandidate(cand) THEN NoMatch ELSE InBody(Body(cand))

\* \[ACTION:profile:(\w+):([^\]]*)\]
PatProfile(cand) ==
    LET Groups(r, j) ==
            IF j < 2 \/ ~AllIn(SubSeq(r, 1, j - 1), WordChars) THEN NoMatch
            ELSE [ok |-> TRUE,
                  g |-> <<SubSeq(r, 1, j - 1), SubSeq(r, j + 1, Len(r))>>]
        Subtype(r) == Groups(r, IndexOf(r, ":"))
        InBody(b) ==
            IF ~StartsWith(b, sProfile \o <<":">>) THEN NoMatch
            ELSE Subtype(SubSeq(b, Len(sProfile) + 2, Len(b)))
    IN IF ~IsCandidate(cand) THEN NoMatch ELSE InBody(Body(cand))

\* \[ACTION:[^\]]*\]  (the clean-up expression of _handle_action)
PatAny(cand) ==
    IF IsCandidate(cand) THEN [ok |-> TRUE, g |-> <<Body(cand)>>]
    ELSE NoMatch

PatternNames == {"numeric", "named", "simple", "create", "profile", "any"}

Pat(p, cand) ==
    CASE p = "numeric" -> PatNumeric(cand)
      [] p = "named" -> PatNamed(cand)
      [] p = "simple" -> PatSimple(cand)
      [] p = "create" -> PatCreate(cand)
      [] p = "profile" -> PatProfile(cand)
      [] p = "any" -> PatAny(cand)

\* the candidate that starts at index i of text: up to the first "]"
CandidateAt(text, i) ==
    LET e == IndexFrom(text, "]", i)
    IN IF i > Len(text) \/ text[i] # "[" \/ e = 0 THEN <<>>
       ELSE SubSeq(text, i, e)

\* re.match(pattern, text): a match anchored at the start of text
ReMatch(p, text) == Pat(p, CandidateAt(text, 1)).ok

\* the five patterns of the directive grammar
GrammarPatterns == <<"numeric", "named", "simple", "create", "profile">>

MatchesGrammarAt(text, i) ==
    \E k \in 1..Len(GrammarPatterns) :
        Pat(GrammarPatterns[k], CandidateAt(text, i)).ok

RECURSIVE FindAllFrom(_, _, _)
\* re.findall(pattern, text): the groups of the non-overlapping matches,
\* scanning from the left; pos records where each match starts
FindAllFrom(p, text, i) ==
    LET Scan(n, c, m) ==
            IF m.ok
            THEN <<[g |-> m.g, pos |-> n]>> \o FindAllFrom(p, text, n + Len(c))
            ELSE FindAllFrom(p, text, n + 1)
        At(n, c) == Scan(n, c, Pat(p, c))
        \* no pattern matches anywhere but at a "["
        From(n) == IF n = 0 THEN <<>> ELSE At(n, CandidateAt(text, n))
    IN From(IndexFrom(text, "[", i))

FindAll(p, text) == FindAllFrom(p, text, 1)

RECURSIVE SubAllFrom(_, _, _)
\* re.sub(pattern, '', text)
SubAllFrom(p, text, i) ==
    LET At(n, c) ==
            IF Pat(p, c).ok
            THEN SubSeq(text, i, n - 1) \o SubAllFrom(p, text, n + Len(c))
            ELSE SubSeq(text, i, n) \o SubAllFrom(p, text, n + 1)
        From(n) ==
            IF n = 0 THEN SubSeq(text, i, Len(text))
            ELSE At(n, CandidateAt(text, n))
    IN From(IndexFrom(text, "[", i))

ReSubEmpty(p, text) == SubAllFrom(p, text, 1)

RECURSIVE StripFrom(_, _)
\* text with exactly the substrings that match the directive grammar removed
StripFrom(text, i) ==
    LET At(n) ==
            IF MatchesGrammarAt(text, n)
            THEN SubSeq(text, i, n - 1)
                 \o StripFrom(text, n + Len(CandidateAt(text, n)))
            ELSE SubSeq(text, i, n) \o StripFrom(text, n + 1)
        From(n) == IF n = 0 THEN SubSeq(text, i, Len(text)) ELSE At(n)
    IN From(IndexFrom(text, "[", i))

StripDirectives(text) == StripFrom(text, 1)

\* some substring of text matches the directive grammar
HasDirective(text) == \E i \in 1..Len(text) : MatchesGrammarAt(text, i)

\* AIAgent._is_action_directive and ChatGPTAgent._is_action_directive:
\* three task patterns and the profile pattern, each tried with re.match
IsActionDirective(text) ==
    /\ StartsWith(text, <<"[">>)
    /\ \/ ReMatch("numeric", text)
       \/ ReMatch("named", text)
       \/ ReMatch("simple", text)
       \/ ReMatch("profile", text)

\* --------------------------------------------------------------- numbers
DigitVal(c) ==
    CASE c = "0" -> 0 [] c = "1" -> 1 [] c = "2" -> 2 [] c = "3" -> 3
      [] c = "4" -> 4 [] c = "5" -> 5 [] c = "6" -> 6 [] c = "7" -> 7
      [] c = "8" -> 8 [] c = "9" -> 9

RECURSIVE DigitsValue(_)
DigitsValue(s) ==
    IF s = <<>> THEN 0
    ELSE 10 * DigitsValue(SubSeq(s, 1, Len(s) - 1)) + DigitVal(s[Len(s)])

\* the absent value None, and a key that the dict does not have
None == -1
Missing == -2

\* int(text): a decimal literal, surrounding whitespace allowed; anything
\* else is a ValueError (the signed and underscore forms are not drawn)
IntOk(s) == Strip(s) # <<>> /\ AllIn(Strip(s), Digits)

IntValue(s) == DigitsValue(Strip(s))

\* str(n)
Str(n) == <<ToString(n)>>

\* ------------------------------------------------------------- JSON texts
\* json.loads on the texts the model draws: a flat object whose keys are
\* strings and whose values are strings or non-negative integers, or a bare
\* string or integer; every other text drawn is a JSONDecodeError.
RECURSIVE SkipWs(_, _)
SkipWs(s, i) ==
    IF i <= Len(s) /\ s[i] \in Whitespace THEN SkipWs(s, i + 1) ELSE i

\* end of the string literal that opens at index i (the closing quote), 0
\* when it does not close; escapes are not drawn
StringEnd(s, i) ==
    IF i > Len(s) \/ s[i] # "\"" THEN 0 ELSE IndexFrom(s, "\"", i + 1)

RECURSIVE NumberEnd(_, _)
\* index of the last digit of the run of digits that starts at i
NumberEnd(s, i) ==
    IF i + 1 <= Len(s) /\ s[i + 1] \in Digits THEN NumberEnd(s, i + 1) ELSE i

BadJson == [ok |-> FALSE, end |-> 0, v |-> [t |-> "none"]]

\* a string or integer value starting at index i
JsonScalarAt(s, i) ==
    LET StringValue(e) ==
            IF e = 0 THEN BadJson
            ELSE [ok |-> TRUE, end |-> e,
                  v |-> [t |-> "str", s |-> SubSeq(s, i + 1, e - 1), n |-> 0]]
        NumberValue(e) ==
            IF s[i] = "0" /\ e > i THEN BadJson
            ELSE [ok |-> TRUE, end |-> e,
                  v |-> [t |-> "int", s |-> <<>>,
                         n |-> DigitsValue(SubSeq(s, i, e))]]
    IN IF i > Len(s) THEN BadJson
       ELSE IF s[i] = "\"" THEN StringValue(StringEnd(s, i))
       ELSE IF s[i] \in Digits THEN NumberValue(NumberEnd(s, i))
       ELSE BadJson

RECURSIVE JsonMembers(_, _, _)
\* the members of an object from index i (just after "{" or ","), as a
\* sequence of <<key, value>>; acc holds those already read
JsonMembers(s, i, acc) ==
    LET bad == [ok |-> FALSE, end |-> 0, m |-> <<>>]
        After(k, v, n) ==
            IF n > Len(s) THEN bad
            ELSE IF s[n] = "}"
            THEN [ok |-> TRUE, end |-> n, m |-> Append(acc, <<k.v.s, v.v>>)]
            ELSE IF s[n] = ","
            THEN JsonMembers(s, n + 1, Append(acc, <<k.v.s, v.v>>))
            ELSE bad
        Value(k, v) ==
            IF ~v.ok THEN bad ELSE After(k, v, SkipWs(s, v.end + 1))
        Colon(k, c) ==
            IF c > Len(s) \/ s[c] # ":" THEN bad
            ELSE Value(k, JsonScalarAt(s, SkipWs(s, c + 1)))
        Key(k) ==
            IF ~k.ok \/ k.v.t # "str" THEN bad
            ELSE Colon(k, SkipWs(s, k.end + 1))
    IN Key(JsonScalarAt(s, SkipWs(s, i)))

\* json.loads(text): [ok, kind, m] with kind "object" or "scalar"
JsonLoads(text) ==
    LET Object(s, r) ==
            [ok |-> r.ok /\ r.end = Len(s), kind |-> "object", m |-> r.m]
        Scalar(s, v) ==
            [ok |-> v.ok /\ v.end = Len(s), kind |-> "scalar", m |-> <<>>]
        Braced(s, n) ==
            IF n <= Len(s) /\ s[n] = "}"
            THEN [ok |-> n = Len(s), kind |-> "object", m |-> <<>>]
            ELSE Object(s, JsonMembers(s, 2, <<>>))
        Loads(s) ==
            IF s = <<>> THEN [ok |-> FALSE, kind |-> "none", m |-> <<>>]
            ELSE IF s[1] = "{" THEN Braced(s, SkipWs(s, 2))
            ELSE Scalar(s, JsonScalarAt(s, 1))
    IN Loads(Strip(text))

NoValue == [t |-> "none", s |-> <<>>, n |-> 0]

RECURSIVE JsonGetFrom(_, _, _)
\* dict.get(key): the last member with this key wins, None when absent
JsonGetFrom(m, key, i) ==
    IF i = 0 THEN NoValue
    ELSE IF m[i][1] = key THEN m[i][2]
    ELSE JsonGetFrom(m, key, i - 1)

JsonGet(obj, key) == JsonGetFrom(obj.m, key, Len(obj.m))

\* ------------------------------------------------------------ task store
\* A store is [tasks, journal]: tasks is indexed by the task id (the store
\* assigns 1, 2, ... and the dispatcher never deletes), journal is the raw
\* input journal of the profile record.
sPending == "pending"
sCompleted == "completed"
sHalfCompleted == "half-completed"

\* alertAt: NULL, a time (in hours), the text of an absolute timestamp, or
\* the sentinel string
NoAlert == [kind |-> "none", t |-> 0, text |-> <<>>]
AlertAt(t) == [kind |-> "at", t |-> t, text |-> <<>>]
AlertAbs(s) == [kind |-> "abs", t |-> 0, text |-> s]
NextDebrief == [kind |-> "next_debrief", t |-> 0, text |-> <<>>]

TaskExists(st, id) == id \in 1..Len(st.tasks)

\* database.get_task_by_id returns a row
get_task_by_id(st, id) == TaskExists(st, id)

\* database.update_task_status: UPDATE ... WHERE id = :task_id
update_task_status(st, id, status, alert) ==
    IF ~TaskExists(st, id) THEN st
    ELSE [st EXCEPT !.tasks[id].status = status, !.tasks[id].alertAt = alert]

\* database.update_task_urgency (the range check is the caller's guard)
update_task_urgency(st, id, urgency) ==
    IF ~TaskExists(st, id) THEN st
    ELSE [st EXCEPT !.tasks[id].urgency = urgency]

\* '\n\nUpdate ' NOW() ':\n'
UpdateMarker(t) ==
    <<"\n", "\n", "U", "p", "d", "a", "t", "e", " ", ToString(t), ":", "\n">>

\* a store whose note update overwrites the description (the statement of
\* update_task_description) instead of concatenating to it
OverwriteDescription(st, id, notes, t) ==
    IF ~TaskExists(st, id) THEN st
    ELSE [st EXCEPT !.tasks[id].description = notes]

\* database.append_task_notes:
\*   SET description = CONCAT(description, '\n\nUpdate ', NOW(), ':\n', :notes)
append_task_notes(st, id, notes, t) ==
    IF ~TaskExists(st, id) THEN st
    ELSE [st EXCEPT !.tasks[id].description = @ \o UpdateMarker(t) \o notes]

\* database.update_task_description: SET description = :description
update_task_description(st, id, description) ==
    IF ~TaskExists(st, id) THEN st
    ELSE [st EXCEPT !.tasks[id].description = description]

\* a guard that lets every urgency through
UrgencyAny(u) == TRUE

\* the guard of database.create_task and database.update_task_urgency:
\* 1 <= urgency <= 5
UrgencyOk(u) == u >= 1 /\ u <= 5

\* database.create_task: INSERT, returns lastrowid
create_task(st, description, urgency) ==
    [st EXCEPT !.tasks = Append(@, [description |-> description,
                                    urgency |-> urgency,
                                    status |-> sPending,
                                    alertAt |-> NoAlert])]

NewTaskId(st) == Len(st.tasks) + 1

\* config.URGENCY_ORDER
URGENCY_ORDER == <<5, 4, 3, 2, 1>>

\* config.HALF_FINISHED_PRIORITY
HALF_FINISHED_PRIORITY == 4

\* ORDER BY CASE WHEN alertAt IS NULL THEN 1 ELSE 0 END, alertAt DESC:
\* a before b (rows that tie keep the order of their ids)
RowBefore(st, a, b) ==
    LET x == st.tasks[a].alertAt
        y == st.tasks[b].alertAt
    IN IF (x.kind = "none") # (y.kind = "none") THEN y.kind = "none"
       ELSE IF x.t # y.t THEN x.t > y.t
       ELSE a < b

RECURSIVE SortRows(_, _)
SortRows(st, ids) ==
    IF ids = {} THEN <<>>
    ELSE LET f == CHOOSE a \in ids : \A b \in ids \ {a} : RowBefore(st, a, b)
         IN <<f>> \o SortRows(st, ids \ {f})

\* database.get_tasks_by_urgency: the ids of the rows, in row order
get_tasks_by_urgency(st, u) ==
    SortRows(st, {id \in 1..Len(st.tasks) : st.tasks[id].urgency = u})

RECURSIVE GetTasksFrom(_, _)
\* AIAgent.get_tasks: for each urgency of URGENCY_ORDER the rows that are
\* not completed, and once more the half-completed rows of urgency 4
GetTasksFrom(st, k) ==
    IF k > Len(URGENCY_ORDER) THEN <<>>
    ELSE LET u == URGENCY_ORDER[k]
             items == get_tasks_by_urgency(st, u)
             Active(id) == st.tasks[id].status # sCompleted
             Half(id) == st.tasks[id].status = sHalfCompleted
         IN SelectSeq(items, Active)
            \o (IF u = HALF_FINISHED_PRIORITY THEN SelectSeq(items, Half)
                ELSE <<>>)
            \o GetTasksFrom(st, k + 1)

get_tasks(st) == GetTasksFrom(st, 1)

\* ---------------------------------------------------------------- extractor
sComplete == <<"c", "o", "m", "p", "l", "e", "t", "e">>
sRemind == <<"r", "e", "m", "i", "n", "d">>
sHelp == <<"h", "e", "l", "p">>
sNotes == <<"n", "o", "t", "e", "s">>
sDescription == <<"d", "e", "s", "c", "r", "i", "p", "t", "i", "o", "n">>
sDraftEmail == <<"d", "r", "a", "f", "t", "_", "e", "m", "a", "i", "l">>
sExplore == <<"e", "x", "p", "l", "o", "r", "e">>

\* the action built from one match of a task pattern (lines 1006-1032)
TaskAction(p, m) ==
    IF Len(m.g) = 3
    THEN IF IntOk(m.g[2])
         THEN [type |-> m.g[1], task_id |-> IntValue(m.g[2]),
               details |-> m.g[3], subtype |-> <<>>, pos |-> m.pos, pat |-> p]
         ELSE [type |-> m.g[1], task_id |-> None,
               details |-> m.g[2], subtype |-> <<>>, pos |-> m.pos, pat |-> p]
    ELSE IF Len(m.g) = 2
    THEN [type |-> m.g[1], task_id |-> None,
          details |-> m.g[2], subtype |-> <<>>, pos |-> m.pos, pat |-> p]
    ELSE [type |-> sCreateTask, task_id |-> None,
          details |-> m.g[1], subtype |-> <<>>, pos |-> m.pos, pat |-> p]

\* the action built from one match of the profile pattern (lines 1037-1044):
\* the dict has no 'task_id' key
ProfileAction(m) ==
    [type |-> sProfile, task_id |-> Missing, details |-> m.g[2],
     subtype |-> m.g[1], pos |-> m.pos, pat |-> "profile"]

ActionsOf(p, text) ==
    LET Build(ms) ==
            [k \in 1..Len(ms) |->
                IF p = "profile" THEN ProfileAction(ms[k])
                ELSE TaskAction(p, ms[k])]
    IN Build(FindAll(p, text))

\* AIAgent._extract_actions: pattern by pattern, the matches of each pattern
\* from the left
ExtractActions(response) ==
    ActionsOf("numeric", response) \o ActionsOf("named", response)
    \o ActionsOf("simple", response) \o ActionsOf("create", response)
    \o ActionsOf("profile", response)

\* ------------------------------------------------------------ dispatcher
\* What the environment does during one dispatch: whether the first store
\* call raises, whether the backend called by _draft_email raises, and
\* whether the profile manager accepts the text and reports an insight.
EnvOk == [storeFail |-> FALSE, backendFail |-> FALSE, insight |-> TRUE]

\* the environments of a dispatch: all is well, the store call raises, the
\* backend of _draft_email raises, the profile manager reports no insight
Envs ==
    {EnvOk,
     [EnvOk EXCEPT !.storeFail = TRUE],
     [EnvOk EXCEPT !.backendFail = TRUE],
     [EnvOk EXCEPT !.insight = FALSE]}

\* a truthy task id (`not action['task_id']` is true of None and of 0)
Truthy(id) == id # None /\ id # 0

\* f"{task_id}"
IdText(id) == IF id = None THEN <<"None">> ELSE Str(id)

\* (\d+)_?([hd])(ours?|ays?)? tried with re.match: the digits and the unit
RECURSIVE DigitRun(_, _)
DigitRun(s, i) ==
    IF i <= Len(s) /\ s[i] \in Digits THEN DigitRun(s, i + 1) ELSE i - 1

NormalizeTime(details) ==
    LET e == DigitRun(details, 1)
        u == IF e + 1 <= Len(details) /\ details[e + 1] = "_" THEN e + 2
             ELSE e + 1
    IN IF e >= 1 /\ u <= Len(details) /\ details[u] \in {"h", "d"}
       THEN SubSeq(details, 1, e) \o <<details[u]>>
       ELSE details

sNextDebrief ==
    <<"n", "e", "x", "t", "_", "d", "e", "b", "r", "i", "e", "f">>

\* a two-digit field of a timestamp within lo..hi
Field2(s, i, lo, hi) ==
    /\ s[i] \in Digits /\ s[i + 1] \in Digits
    /\ DigitsValue(SubSeq(s, i, i + 1)) >= lo
    /\ DigitsValue(SubSeq(s, i, i + 1)) <= hi

\* datetime.strptime(s, "%Y-%m-%d %H:%M") on the zero-padded form
IsTimestamp(s) ==
    /\ Len(s) = 16
    /\ AllIn(SubSeq(s, 1, 4), Digits)
    /\ s[5] = "-" /\ Field2(s, 6, 1, 12)
    /\ s[8] = "-" /\ Field2(s, 9, 1, 31)
    /\ s[11] = " " /\ Field2(s, 12, 0, 23)
    /\ s[14] = ":" /\ Field2(s, 15, 0, 59)

NoTime == [ok |-> FALSE, alert |-> NoAlert]

\* a parser that adds the number of a day payload as hours
ParseDaysAsHours(s, t) ==
    IF s # <<>> /\ s[Len(s)] \in {"h", "d"} /\ IntOk(SubSeq(s, 1, Len(s) - 1))
    THEN [ok |-> TRUE, alert |-> AlertAt(t + IntValue(SubSeq(s, 1, Len(s) - 1)))]
    ELSE NoTime

\* AIAgent._parse_reminder_time at time t (in hours)
ParseReminderTime(s, t) ==
    IF s = sNextDebrief THEN [ok |-> TRUE, alert |-> NextDebrief]
    ELSE IF s # <<>> /\ s[Len(s)] = "h"
    THEN IF IntOk(SubSeq(s, 1, Len(s) - 1))
         THEN [ok |-> TRUE,
               alert |-> AlertAt(t + IntValue(SubSeq(s, 1, Len(s) - 1)))]
         ELSE NoTime
    ELSE IF s # <<>> /\ s[Len(s)] = "d"
    THEN IF IntOk(SubSeq(s, 1, Len(s) - 1))
         THEN [ok |-> TRUE,
               alert |-> AlertAt(t + 24 * IntValue(SubSeq(s, 1, Len(s) - 1)))]
         ELSE NoTime
    ELSE IF IsTimestamp(s) THEN [ok |-> TRUE, alert |-> AlertAbs(s)]
    ELSE NoTime

\* reminder_time.strftime('%Y-%m-%d %H:%M') or the sentinel
AlertText(a, t) ==
    IF a.kind = "next_debrief" THEN sNextDebrief
    ELSE IF a.kind = "abs" THEN a.text
    ELSE <<"now+", ToString(a.t - t), "h">>

\* re.sub(r'\[ACTION:[^\]]*\]', '', response).strip()
Cleaned(response) == Strip(ReSubEmpty("any", response))

\* a JSON value as the store and the feedback show it
ValueText(v) == IF v.t = "int" THEN Str(v.n) ELSE v.s

\* the value is truthy
ValueTruthy(v) ==
    \/ v.t = "str" /\ v.s # <<>>
    \/ v.t = "int" /\ v.n # 0

\* AIAgent.add_task_notes: raises ValueError when the task is not found
add_task_notes(st, id, notes, t) ==
    IF ~get_task_by_id(st, id) THEN [ok |-> FALSE, st |-> st]
    ELSE [ok |-> TRUE, st |-> append_task_notes(st, id, notes, t)]

FbCreated(id, description) ==
    <<"\n", "[", "(ok) Created new task #">> \o Str(id) \o <<":", " ">>
    \o description \o <<"]">>
\* a handler of json.JSONDecodeError that logs and sets no feedback
FbCreateSilent == <<>>
FbCreateInvalid ==
    <<"\n", "[", "(x) Failed to create task - invalid format", "]">>
FbCreateFailed == <<"\n", "[", "(x) Failed to create task", "]">>
FbCompleted(id) ==
    <<"\n", "[", "(ok) Task #">> \o IdText(id)
    \o <<" has been marked as completed", "]">>
FbReminder(id, a, t) ==
    <<"\n", "[", "(clock) Reminder set for Task #">> \o IdText(id)
    \o <<" at ">> \o AlertText(a, t) \o <<"]">>
FbReminderInvalid(id) ==
    <<"\n", "[", "(x) Failed to set reminder for Task #">> \o IdText(id)
    \o <<" - invalid time format", "]">>
FbInProgress(id) ==
    <<"\n", "[", "(memo) Task #">> \o IdText(id)
    \o <<" has been marked as in-progress", "]">>
FbNote(id) ==
    <<"\n", "[", "(memo) Added note to Task #">> \o IdText(id) \o <<"]">>
FbDraft(id) ==
    <<"\n", "[", "(mail) Email draft created for Task #">> \o IdText(id)
    \o <<"]">>
FbDraftInvalid ==
    <<"\n", "[", "(x) Failed to create email draft - invalid format", "]">>
FbProfileInsight == <<"\n", "[", "(user) Profile updated: <insight>", "]">>
FbProfileUpdated == <<"\n", "[", "(user) Profile updated", "]">>
FbPreference == <<"\n", "[", "(user) Added preference to profile", "]">>
FbGoal == <<"\n", "[", "(user) Added goal to profile", "]">>
FbProfileFailed == <<"\n", "[", "(x) Failed to update profile", "]">>
FbExplore(id) ==
    <<"\n", "[", "(search) Exploring details for Item #">> \o IdText(id)
    \o <<"]">>

\* the create_task branch (lines 1055-1078): [st, fb]
CreateTaskBranch(action, st, t, env) ==
    LET Created(d, n, id, st1) ==
            IF ValueTruthy(n)
            THEN [st |-> add_task_notes(st1, id, ValueText(n), t).st,
                  fb |-> FbCreated(id, ValueText(d))]
            ELSE [st |-> st1, fb |-> FbCreated(id, ValueText(d))]
        Checked(j, d, u, n, urgency) ==
            IF \/ j.kind # "object"
               \/ u.t = "str"
               \/ ~UrgencyOk(urgency)
               \/ d.t = "none"
               \/ env.storeFail
            THEN [st |-> st, fb |-> FbCreateFailed]
            ELSE Created(d, n, NewTaskId(st),
                         create_task(st, ValueText(d), urgency))
        Fields(j, d, u, n) ==
            Checked(j, d, u, n, IF u.t = "none" THEN 3 ELSE u.n)
        Loaded(j) ==
            IF ~j.ok THEN [st |-> st, fb |-> FbCreateInvalid]
            ELSE Fields(j,
                     JsonGet(j, <<"d", "e", "s", "c", "r", "i", "p", "t", "i",
                                  "o", "n">>),
                     JsonGet(j, <<"u", "r", "g", "e", "n", "c", "y">>),
                     JsonGet(j, <<"n", "o", "t", "e", "s">>))
    IN Loaded(JsonLoads(action.details))

\* sub in s
ContainsSub(s, sub) ==
    \E i \in 1..(Len(s) - Len(sub) + 1) : SubSeq(s, i, i + Len(sub) - 1) = sub

\* the text the backend drafts for _draft_email (opaque)
DraftText == <<"<email draft>">>

sDraftPrefix == sACTION \o sDraftEmail \o <<":">>

RECURSIVE SubDraftFrom(_, _, _)
\* re.sub(r'\[ACTION:draft_email:[^\]]*\]', repl, text)
SubDraftFrom(text, repl, i) ==
    LET At(n, c) ==
            IF c # <<>> /\ StartsWith(c, sDraftPrefix)
            THEN SubSeq(text, i, n - 1) \o repl
                 \o SubDraftFrom(text, repl, n + Len(c))
            ELSE SubSeq(text, i, n) \o SubDraftFrom(text, repl, n + 1)
        From(n) ==
            IF n = 0 THEN SubSeq(text, i, Len(text))
            ELSE At(n, CandidateAt(text, n))
    IN From(IndexFrom(text, "[", i))

\* the remind target when the action has none (lines 1081-1095): the first
\* task of get_tasks, 0 when there is none
ResolveRemind(st) ==
    LET First(tasks) == IF tasks = <<>> THEN 0 ELSE tasks[1]
    IN First(get_tasks(st))

\* the branch of the action's type (lines 1101-1214) for a resolved action:
\* [raised, st, fb, response]; fb = <<>> is "no feedback"
TypeBranch(action, id, response, st, t, env) ==
    LET same == [raised |-> FALSE, st |-> st, fb |-> <<>>, response |-> response]
        raise == [same EXCEPT !.raised = TRUE]
    IN
    IF action.type = sComplete
    THEN IF env.storeFail THEN raise
         ELSE [same EXCEPT !.st = update_task_status(st, id, sCompleted, NoAlert),
                           !.fb = FbCompleted(id)]
    ELSE IF action.type = sRemind
    THEN LET Remind(r) ==
                 IF ~r.ok THEN [same EXCEPT !.fb = FbReminderInvalid(id)]
                 ELSE IF env.storeFail THEN raise
                 ELSE [same EXCEPT
                         !.st = update_task_status(st, id, sPending, r.alert),
                         !.fb = FbReminder(id, r.alert, t)]
         IN Remind(ParseReminderTime(NormalizeTime(action.details), t))
    ELSE IF action.type = sHelp
    THEN IF env.storeFail THEN raise
         ELSE [same EXCEPT
                 !.st = update_task_status(st, id, sHalfCompleted, AlertAt(t)),
                 !.fb = FbInProgress(id)]
    ELSE IF action.type = sNotes
    THEN LET Noted(r) ==
                 IF env.storeFail \/ ~r.ok THEN raise
                 ELSE [same EXCEPT !.st = r.st, !.fb = FbNote(id)]
         IN Noted(add_task_notes(st, id, action.details, t))
    ELSE IF action.type = sDraftEmail
    THEN LET d == Strip(action.details)
             j == JsonLoads(IF StartsWith(d, <<"{">>) THEN d
                            ELSE <<"{">> \o d \o <<"}">>)
         IN IF ~j.ok
            THEN [same EXCEPT !.fb = FbDraftInvalid,
                              !.response = SubDraftFrom(response, <<>>, 1)]
            ELSE IF env.storeFail THEN raise
            ELSE IF get_task_by_id(st, id) /\ env.backendFail THEN raise
            ELSE [same EXCEPT
                    !.fb = FbDraft(id),
                    !.response =
                        SubDraftFrom(response,
                            <<"\n", "Here's a draft email for you:", "\n", "\n">>
                            \o (IF get_task_by_id(st, id) THEN DraftText
                                ELSE <<"Error: Task not found">>), 1)]
    ELSE IF action.type = sProfile
    THEN LET j == JsonLoads(action.details)
             accepted == env.insight /\ ~env.storeFail
             st1 == IF accepted
                    THEN [st EXCEPT !.journal = Append(@, [t |-> t])]
                    ELSE st
         IN IF StartsWith(action.details, <<"{">>) /\ ~j.ok
            THEN [same EXCEPT !.fb = FbProfileFailed]
            ELSE IF action.subtype = <<>>
            THEN [same EXCEPT !.fb = FbProfileFailed]
            ELSE IF ContainsSub(action.subtype, <<"u", "p", "d", "a", "t", "e">>)
            THEN [same EXCEPT !.st = st1,
                    !.fb = IF accepted THEN FbProfileInsight
                           ELSE FbProfileUpdated]
            ELSE IF ContainsSub(action.subtype,
                        <<"p", "r", "e", "f", "e", "r", "e", "n", "c", "e">>)
            THEN [same EXCEPT !.st = st1, !.fb = FbPreference]
            ELSE IF ContainsSub(action.subtype, <<"g", "o", "a", "l">>)
            THEN [same EXCEPT !.st = st1, !.fb = FbGoal]
            ELSE same
    ELSE IF action.type = sExplore
    THEN [same EXCEPT !.fb = FbExplore(id)]
    ELSE same

\* a dispatcher without the handler of lines 1226-1229: the exception leaves
\* _handle_action
Propagated(st, response) == [st |-> st, ret |-> <<>>, raised |-> TRUE]

\* the handler of lines 1226-1229: the exception is logged and the response
\* without its directives is returned
Caught(st, response) ==
    [st |-> st, ret |-> Cleaned(response), raised |-> FALSE]

\* AIAgent._handle_action(action, response) at time t: [st, ret, raised],
\* the store afterwards, the text returned, and whether an exception left
\* the method
HandleAction(action, response, st, t, env) ==
    LET needsTarget == action.type = sRemind /\ action.type # sCreateTask
                       /\ action.task_id # Missing /\ ~Truthy(action.task_id)
        Return(st1, ret) == [st |-> st1, ret |-> ret, raised |-> FALSE]
        Result(b) ==
            IF b.raised
            THEN Caught(b.st, response)
            ELSE Return(b.st, Cleaned(b.response) \o b.fb)
        Resolved(created, id) ==
            IF needsTarget /\ env.storeFail
            THEN Caught(st, response)
            ELSE IF needsTarget /\ id = 0
            THEN Return(st, response)
            ELSE IF id = Missing
            THEN Caught(created.st, response)
            ELSE IF /\ ~Truthy(id)
                    /\ action.type \notin {sProfile, sExplore, sCreateTask}
            THEN Return(created.st, response)
            ELSE Result(IF action.type = sCreateTask
                        THEN [raised |-> FALSE, st |-> created.st,
                              fb |-> created.fb, response |-> response]
                        ELSE TypeBranch(action, id, response, st, t, env))
    IN Resolved(IF action.type = sCreateTask
                THEN CreateTaskBranch(action, st, t, env)
                ELSE [st |-> st, fb |-> <<>>],
                IF needsTarget THEN ResolveRemind(st) ELSE action.task_id)

\* --------------------------------------------------------- stream buffers
\* One iteration of the loop of ChatGPTAgent.process (lines 87-114) on the
\* buffer buf and the delta content: [buf, out], out the fragments yielded
ChatStep(buf, content) ==
    LET Split(b, potential_action, remaining_text) ==
            IF IsActionDirective(potential_action)
            THEN [buf |-> <<>>,
                  out |-> IF remaining_text # <<>>
                          THEN <<remaining_text>> ELSE <<>>]
            ELSE [buf |-> <<>>, out |-> <<b>>]
        Bracket(b, e) ==
            IF e # 0 THEN Split(b, SubSeq(b, 1, e), SubSeq(b, e + 1, Len(b)))
            ELSE [buf |-> b, out |-> <<>>]
        Buffered(b) ==
            IF StartsWith(b, <<"[">>) THEN Bracket(b, IndexOf(b, "]"))
            ELSE [buf |-> <<>>, out |-> <<b>>]
    IN Buffered(buf \o content)

\* an end of stream that discards the residual buffer
ChatFlushDrop(buf) == <<>>

\* the end of ChatGPTAgent.process (lines 116-118): the fragments yielded
ChatFlush(buf) ==
    IF buf # <<>> /\ ~IsActionDirective(buf) THEN <<buf>> ELSE <<>>

\* One iteration of the loop of AIAgent.handle_task_input (lines 901-929) on
\* the buffer, the response so far and the chunk: [buf, response, out]
HandleStep(buf, response, chunk) ==
    LET Split(b, potential_action, remaining_text) ==
            IF IsActionDirective(potential_action)
            THEN [buf |-> b,
                  response |-> response \o potential_action \o chunk,
                  out |-> IF remaining_text # <<>>
                          THEN <<remaining_text>> ELSE <<>>]
            ELSE [buf |-> b, response |-> response \o chunk, out |-> <<b>>]
        Bracket(b, e) ==
            IF e # 0 THEN Split(b, SubSeq(b, 1, e), SubSeq(b, e + 1, Len(b)))
            ELSE [buf |-> b, response |-> response, out |-> <<>>]
        Buffered(b) ==
            IF StartsWith(b, <<"[">>) THEN Bracket(b, IndexOf(b, "]"))
            ELSE [buf |-> <<>>, response |-> response \o chunk, out |-> <<b>>]
    IN Buffered(buf \o chunk)

\* an end of loop that discards the residual buffer
HandleFlushDrop(buf, response) == [response |-> response, out |-> <<>>]

\* The end of the loop of AIAgent.handle_task_input (lines 931-936):
\* [response, out]
HandleFlush(buf, response) ==
    IF buf = <<>> THEN [response |-> response, out |-> <<>>]
    ELSE IF ~IsActionDirective(buf)
    THEN [response |-> response, out |-> <<buf>>]
    ELSE [response |-> response \o buf, out |-> <<>>]

\* the chunks of out pushed through HandleStep, in order
RECURSIVE HandleChunks(_, _, _)
HandleChunks(h, chunks, k) ==
    LET Step(r) ==
            HandleChunks([buf |-> r.buf, response |-> r.response,
                          out |-> h.out \o r.out], chunks, k + 1)
    IN IF k > Len(chunks) THEN h
       ELSE Step(HandleStep(h.buf, h.response, chunks[k]))

\* a dispatch loop that also runs while the stream is being consumed
DispatchEager(p) == p \in {"stream", "dispatch"}

\* directives are dispatched after the loop and the flush (lines 938-943)
DispatchEnabled(p) == p = "dispatch"

\* ---------------------------------------------------------------- one turn
\* The deltas the backend may produce (chunk.choices[0].delta.content)
\* plain prose
dProse ==
    <<"o", "k">>

\* the first half of a directive
dOpenHalf ==
    <<"[", "A", "C", "T", "I">>

\* the second half of a directive
dCloseHalf ==
    <<"O", "N", ":", "c", "o", "m", "p", "l", "e", "t", "e", ":", "1", ":",
    "d", "]">>

\* a whole directive that starts a delta
dNotes ==
    <<"[", "A", "C", "T", "I", "O", "N", ":", "n", "o", "t", "e", "s", ":",
    "2", ":", "n", "]">>

\* a directive the backend never closes
dUnterminated ==
    <<"[", "A", "C", "T", "I", "O", "N", ":", "r", "e", "m">>

\* prose, then a directive, in one delta
dProseComplete ==
    <<"a", "[", "A", "C", "T", "I", "O", "N", ":", "c", "o", "m", "p", "l",
    "e", "t", "e", ":", "1", ":", "d", "]">>

\* bracketed prose that is no directive
dBracket ==
    <<"[", "x", "]">>

\* prose, then a directive without a task id
dProseRemind ==
    <<"a", "[", "A", "C", "T", "I", "O", "N", ":", "r", "e", "m", "i", "n",
    "d", ":", "t", "a", "s", "k", "_", "i", "d", ":", "2", "h", "]">>

\* two directives in one delta
dTwoDirectives ==
    <<"[", "A", "C", "T", "I", "O", "N", ":", "h", "e", "l", "p", ":", "1",
    ":", "x", "]", "[", "A", "C", "T", "I", "O", "N", ":", "n", "o", "t",
    "e", "s", ":", "2", ":", "n", "]">>

\* prose, then a directive of the form kind:task_id:<id>:<payload>
dProseNamed ==
    <<"a", "[", "A", "C", "T", "I", "O", "N", ":", "n", "o", "t", "e", "s",
    ":", "t", "a", "s", "k", "_", "i", "d", ":", "1", ":", "n", "]">>

\* prose, then a directive of the form kind:task_id:<target>:<payload> whose
\* target is no integer
dProseTextTarget ==
    <<"a", "[", "A", "C", "T", "I", "O", "N", ":", "n", "o", "t", "e", "s",
    ":", "t", "a", "s", "k", "_", "i", "d", ":", "x", ":", "n", "]">>

\* prose, then a remind directive whose payload is no time token
dProseRemindSoon ==
    <<"a", "[", "A", "C", "T", "I", "O", "N", ":", "r", "e", "m", "i", "n",
    "d", ":", "1", ":", "s", "o", "o", "n", "]">>

\* prose, then a remind directive whose payload starts like a time token
dProseRemindLoose ==
    <<"a", "[", "A", "C", "T", "I", "O", "N", ":", "r", "e", "m", "i", "n",
    "d", ":", "1", ":", "2", "h", "x", "]">>

\* prose, then complete, remind and help directives for a task id that no
\* task has
dProseMissingTarget ==
    <<"a", "[", "A", "C", "T", "I", "O", "N", ":", "c", "o", "m", "p", "l",
    "e", "t", "e", ":", "9", ":", "d", "]", "[", "A", "C", "T", "I", "O", "N",
    ":", "r", "e", "m", "i", "n", "d", ":", "9", ":", "2", "h", "]", "[", "A",
    "C", "T", "I", "O", "N", ":", "h", "e", "l", "p", ":", "9", ":", "x",
    "]">>

Deltas ==
    {dProse,
     dOpenHalf,
     dCloseHalf,
     dNotes,
     dUnterminated,
     dProseComplete,
     dBracket,
     dProseRemind}

VARIABLES
    pc,          \* where the turn of handle_task_input is
    nDeltas,     \* deltas the backend has produced
    rawIn,       \* the backend's raw output so far
    chunks,      \* the fragments handle_task_input received
    cbuf,        \* buffer of ChatGPTAgent.process
    buffer,      \* buffer of handle_task_input
    response,    \* response of handle_task_input
    yielded,     \* fragments yielded to the caller by the loop and the flush
    feedback,    \* fragments yielded to the caller by the dispatch loop
    nDone,       \* actions dispatched
    dispatched,  \* the actions dispatched, in dispatch order
    atYield,     \* the last step yielded a fragment to the caller
    exitPc,      \* pc when the caller or the backend ended the turn early
    faults,      \* the environment of each dispatch, in dispatch order
    store,       \* the task and profile store
    now          \* the clock, in hours

turnVars ==
    <<pc, nDeltas, rawIn, chunks, cbuf, buffer, response, yielded, feedback,
      nDone, dispatched, atYield, exitPc, faults>>

VARIABLES
    nOps,     \* operations applied to the store
    lastOp,   \* the last operation applied
    readTask  \* the task a conversational path has read and not yet written

storeVars == <<nOps, lastOp, readTask>>

VARIABLES
    rpc,         \* where the turn of process_input is
    avail,       \* is_available of the two backends
    userInput,   \* user_input
    ctx,         \* the kind of context
    insight,     \* the profile manager reported an insight
    reconciled,  \* the profile manager has been invoked
    mode,        \* the branch that streams: greeting, tasks, primary, fallback
    cur,         \* the backend being streamed from
    primary,     \* the backend selected for the turn
    calls,       \* the backends invoked to stream, in order
    streamed,    \* fragments the current stream has produced
    failedCalls, \* the invocations (indices of calls) that raised
    rOut,        \* the fragments yielded to the caller
    writes,      \* the writes to the store, in order
    error        \* the error that ended the turn

routerVars ==
    <<rpc, avail, userInput, ctx, insight, reconciled, mode, cur, primary,
      calls, streamed, failedCalls, rOut, writes, error>>

VARIABLES
    bpc,            \* where the call of _chunk_tasks is
    tasks,          \* tasks, the list passed to _chunk_tasks
    MAX_EMAILS,     \* config.MAX_EMAILS of the installation
    MAX_TOKENS,     \* config.MAX_TOKENS of the installation
    nChunked,       \* the tasks the loop has handled
    batches,        \* chunks of _chunk_tasks
    current_chunk,  \* current_chunk
    current_size    \* current_size

batchVars ==
    <<bpc, tasks, MAX_EMAILS, MAX_TOKENS, nChunked, batches, current_chunk,
      current_size>>

VARIABLES
    profiles,  \* the committed rows of user_profiles, in id order
    ppc,       \* where each call of ProfileManager.process_input is
    sess,      \* the database session and the locals of each call
    pret       \* what each call returned

profileVars == <<profiles, ppc, sess, pret>>

vars ==
    <<turnVars, storeVars, routerVars, batchVars, profileVars, store, now>>

Task(description, urgency, status) ==
    [description |-> description, urgency |-> urgency, status |-> status,
     alertAt |-> NoAlert]

\* the store at the start of a turn: two pending tasks
InitStore ==
    [tasks |-> <<Task(<<"A">>, 5, sPending), Task(<<"B">>, 3, sPending)>>,
     journal |-> <<>>]

TurnInit ==
    /\ pc = "stream"
    /\ nDeltas = 0
    /\ rawIn = <<>>
    /\ chunks = <<>>
    /\ cbuf = <<>>
    /\ buffer = <<>>
    /\ response = <<>>
    /\ yielded = <<>>
    /\ feedback = <<>>
    /\ nDone = 0
    /\ dispatched = <<>>
    /\ atYield = FALSE
    /\ exitPc = "none"
    /\ faults = <<>>

\* the backend produces the delta d: ChatGPTAgent.process handles it and
\* handle_task_input handles what ChatGPTAgent.process yields
ChatDelta(d) ==
    LET Handled(c, h) ==
            /\ cbuf' = c.buf
            /\ chunks' = chunks \o c.out
            /\ buffer' = h.buf
            /\ response' = h.response
            /\ yielded' = yielded \o h.out
            /\ atYield' = (h.out # <<>>)
        Received(c) ==
            Handled(c, HandleChunks([buf |-> buffer, response |-> response,
                                     out |-> <<>>], c.out, 1))
    IN /\ pc = "stream"
       /\ nDeltas < MaxDeltas
       /\ Received(ChatStep(cbuf, d))
       /\ nDeltas' = nDeltas + 1
       /\ rawIn' = rawIn \o d
       /\ UNCHANGED <<pc, feedback, nDone, dispatched, exitPc, faults, store,
                      now>>
       /\ UNCHANGED <<storeVars, routerVars, batchVars, profileVars>>

\* the backend's stream ends: ChatGPTAgent.process flushes its buffer
ChatEnd ==
    LET Handled(out, h) ==
            /\ chunks' = chunks \o out
            /\ buffer' = h.buf
            /\ response' = h.response
            /\ yielded' = yielded \o h.out
            /\ atYield' = (h.out # <<>>)
        Received(out) ==
            Handled(out, HandleChunks([buf |-> buffer, response |-> response,
                                       out |-> <<>>], out, 1))
    IN /\ pc = "stream"
       /\ Received(ChatFlush(cbuf))
       /\ pc' = "flush"
       /\ UNCHANGED <<nDeltas, rawIn, cbuf, feedback, nDone, dispatched,
                      exitPc, faults, store, now>>
       /\ UNCHANGED <<storeVars, routerVars, batchVars, profileVars>>

\* handle_task_input leaves its loop and flushes its buffer
FlushBuffer ==
    LET Flushed(f) ==
            /\ response' = f.response
            /\ yielded' = yielded \o f.out
            /\ atYield' = (f.out # <<>>)
    IN /\ pc = "flush"
       /\ Flushed(HandleFlush(buffer, response))
       /\ pc' = "dispatch"
       /\ UNCHANGED <<nDeltas, rawIn, chunks, cbuf, buffer, feedback, nDone,
                      dispatched, exitPc, faults, store, now>>
       /\ UNCHANGED <<storeVars, routerVars, batchVars, profileVars>>

\* the next action of _extract_actions(response) is handed to _handle_action
\* in the environment env and what it returns is yielded when it is not
\* empty; an exception that leaves _handle_action is logged and re-raised by
\* handle_task_input (lines 945-947)
Dispatch(env) ==
    LET Handled(a, r) ==
            /\ store' = r.st
            /\ dispatched' = Append(dispatched, a)
            /\ feedback' = IF r.ret # <<>> THEN Append(feedback, r.ret)
                           ELSE feedback
            /\ atYield' = (r.ret # <<>>)
            /\ pc' = IF r.raised THEN "raised" ELSE pc
            /\ exitPc' = IF r.raised THEN pc ELSE exitPc
        Handle(a) == Handled(a, HandleAction(a, response, store, now, env))
        Actions(actions) ==
            /\ nDone < Len(actions)
            /\ Handle(actions[nDone + 1])
    IN /\ DispatchEnabled(pc)
       /\ Actions(ExtractActions(response))
       /\ nDone' = nDone + 1
       /\ faults' = Append(faults, env)
       /\ now' = now + 1
       /\ UNCHANGED <<nDeltas, rawIn, chunks, cbuf, buffer, response, yielded>>
       /\ UNCHANGED <<storeVars, routerVars, batchVars, profileVars>>

\* every action has been dispatched: the generator returns
Finish ==
    /\ pc = "dispatch"
    /\ nDone = Len(ExtractActions(response))
    /\ pc' = "done"
    /\ atYield' = FALSE
    /\ UNCHANGED <<nDeltas, rawIn, chunks, cbuf, buffer, response, yielded,
                   feedback, nDone, dispatched, exitPc, faults, store, now>>
    /\ UNCHANGED <<storeVars, routerVars, batchVars, profileVars>>

\* the backend raises while it is awaited: ChatGPTAgent.process and
\* handle_task_input log and re-raise
BackendRaise ==
    /\ pc = "stream"
    /\ pc' = "raised"
    /\ exitPc' = pc
    /\ atYield' = FALSE
    /\ UNCHANGED <<nDeltas, rawIn, chunks, cbuf, buffer, response, yielded,
                   feedback, nDone, dispatched, faults, store, now>>
    /\ UNCHANGED <<storeVars, routerVars, batchVars, profileVars>>

\* the caller stops consuming the generator at the fragment it just received
Abandon ==
    /\ pc \in {"stream", "flush", "dispatch"}
    /\ atYield
    /\ pc' = "abandoned"
    /\ exitPc' = pc
    /\ atYield' = FALSE
    /\ UNCHANGED <<nDeltas, rawIn, chunks, cbuf, buffer, response, yielded,
                   feedback, nDone, dispatched, faults, store, now>>
    /\ UNCHANGED <<storeVars, routerVars, batchVars, profileVars>>

\* ------------------------------------------- conversational modification
sUrgency == <<"u", "r", "g", "e", "n", "c", "y">>
sStatus == <<"s", "t", "a", "t", "u", "s">>
sReminder == <<"r", "e", "m", "i", "n", "d", "e", "r">>

\* datetime.fromisoformat on the form YYYY-MM-DDTHH:MM:SS
IsIsoTimestamp(s) ==
    /\ Len(s) = 19
    /\ AllIn(SubSeq(s, 1, 4), Digits)
    /\ s[5] = "-" /\ Field2(s, 6, 1, 12)
    /\ s[8] = "-" /\ Field2(s, 9, 1, 31)
    /\ s[11] = "T" /\ Field2(s, 12, 0, 23)
    /\ s[14] = ":" /\ Field2(s, 15, 0, 59)
    /\ s[17] = ":" /\ Field2(s, 18, 0, 59)

\* the status values of the store as texts
StatusName(v) ==
    IF v = <<"p", "e", "n", "d", "i", "n", "g">> THEN sPending
    ELSE IF v = <<"c", "o", "m", "p", "l", "e", "t", "e", "d">> THEN sCompleted
    ELSE IF v = <<"h", "a", "l", "f", "-", "c", "o", "m", "p", "l", "e", "t",
                  "e", "d">> THEN sHalfCompleted
    ELSE "invalid"

\* AIAgent.update_task_priority: the urgency and a note about the change
update_task_priority(st, id, urgency, reason, t) ==
    append_task_notes(update_task_urgency(st, id, urgency), id,
        <<"Urgency changed from ", ToString(st.tasks[id].urgency), " to ",
          ToString(urgency), ". Reason: ">> \o reason, t)

\* AIAgent._apply_task_modification(modification) at time t: [st, ret];
\* ret = <<>> is None
ApplyTaskModification(m, st, t) ==
    LET none == [st |-> st, ret |-> <<>>]
    IN
    IF ~Truthy(m.task_id) \/ m.type = <<>> \/ m.value = <<>> THEN none
    ELSE IF ~get_task_by_id(st, m.task_id) THEN none
    ELSE IF m.type = sUrgency
    THEN IF IntOk(m.value) /\ UrgencyOk(IntValue(m.value))
         THEN [st |-> update_task_priority(st, m.task_id, IntValue(m.value),
                                           m.reason, t),
               ret |-> <<"I've updated the task urgency to ">>
                       \o Str(IntValue(m.value)) \o <<".", " ">> \o m.reason]
         ELSE none
    ELSE IF m.type = sStatus
    THEN IF StatusName(m.value) # "invalid"
         THEN [st |-> update_task_status(st, m.task_id, StatusName(m.value),
                                         NoAlert),
               ret |-> <<"I've marked the task as ">> \o m.value
                       \o <<".", " ">> \o m.reason]
         ELSE none
    ELSE IF m.type = sNotes \/ m.type = sDescription
    THEN IF Strip(m.value) # <<>>
         THEN [st |-> add_task_notes(st, m.task_id, m.value, t).st,
               ret |-> <<"I've added this information to the task: ">>
                       \o m.value]
         ELSE none
    ELSE IF m.type = sReminder
    THEN IF IsIsoTimestamp(m.value)
         THEN [st |-> update_task_status(st, m.task_id,
                          st.tasks[m.task_id].status, AlertAbs(m.value)),
               ret |-> <<"I've set a reminder for ">> \o m.value
                       \o <<".", " ">> \o m.reason]
         ELSE none
    ELSE none

\* ------------------------------------------------- the store under updates
\* Texts of the backend that carry directives, as the dispatcher gets them
tNotes ==
    <<"[", "A", "C", "T", "I", "O", "N", ":", "n", "o", "t", "e", "s", ":",
    "1", ":", "n", "]">>

tDescription ==
    <<"[", "A", "C", "T", "I", "O", "N", ":", "d", "e", "s", "c", "r", "i",
    "p", "t", "i", "o", "n", ":", "2", ":", "n", "]">>

tComplete ==
    <<"[", "A", "C", "T", "I", "O", "N", ":", "c", "o", "m", "p", "l", "e",
    "t", "e", ":", "1", ":", "d", "]">>

tRemind ==
    <<"[", "A", "C", "T", "I", "O", "N", ":", "r", "e", "m", "i", "n", "d",
    ":", "2", ":", "2", "h", "]">>

tHelp ==
    <<"[", "A", "C", "T", "I", "O", "N", ":", "h", "e", "l", "p", ":", "1",
    ":", "x", "]">>

tCreate ==
    <<"[", "A", "C", "T", "I", "O", "N", ":", "c", "r", "e", "a", "t", "e",
    "_", "t", "a", "s", "k", ":", "{", "\"", "d", "e", "s", "c", "r", "i",
    "p", "t", "i", "o", "n", "\"", ":", "\"", "T", "\"", ",", "\"", "n",
    "o", "t", "e", "s", "\"", ":", "\"", "m", "\"", "}", "]">>

tNotesNoId ==
    <<"[", "A", "C", "T", "I", "O", "N", ":", "n", "o", "t", "e", "s", ":",
    "t", "a", "s", "k", "_", "i", "d", ":", "n", "]">>

tProfile ==
    <<"[", "A", "C", "T", "I", "O", "N", ":", "p", "r", "o", "f", "i", "l",
    "e", ":", "u", "p", "d", "a", "t", "e", ":", "v", "]">>

tNotesMissing ==
    <<"[", "A", "C", "T", "I", "O", "N", ":", "n", "o", "t", "e", "s", ":",
    "9", ":", "n", "]">>

tRemindNoId ==
    <<"[", "A", "C", "T", "I", "O", "N", ":", "r", "e", "m", "i", "n", "d",
    ":", "t", "a", "s", "k", "_", "i", "d", ":", "2", "h", "]">>

\* a create_task directive whose payload is no JSON
tCreateBad ==
    <<"[", "A", "C", "T", "I", "O", "N", ":", "c", "r", "e", "a", "t", "e",
    "_", "t", "a", "s", "k", ":", "{", "n", "o", "t", " ", "j", "s", "o",
    "n", "}", "]">>

\* a reminder in days
tRemindDays ==
    <<"[", "A", "C", "T", "I", "O", "N", ":", "r", "e", "m", "i", "n", "d",
    ":", "1", ":", "3", "d", "]">>

\* a create_task directive with an urgency out of range
tCreateUrgent ==
    <<"[", "A", "C", "T", "I", "O", "N", ":", "c", "r", "e", "a", "t", "e",
    "_", "t", "a", "s", "k", ":", "{", "\"", "d", "e", "s", "c", "r", "i",
    "p", "t", "i", "o", "n", "\"", ":", "\"", "T", "\"", ",", "\"", "u",
    "r", "g", "e", "n", "c", "y", "\"", ":", "9", "}", "]">>

\* a create_task directive with the highest urgency
tCreateTop ==
    <<"[", "A", "C", "T", "I", "O", "N", ":", "c", "r", "e", "a", "t", "e",
    "_", "t", "a", "s", "k", ":", "{", "\"", "d", "e", "s", "c", "r", "i",
    "p", "t", "i", "o", "n", "\"", ":", "\"", "T", "\"", ",", "\"", "u",
    "r", "g", "e", "n", "c", "y", "\"", ":", "5", "}", "]">>

DirectiveTexts ==
    {tNotes,
     tDescription,
     tComplete,
     tRemind,
     tHelp,
     tCreate,
     tNotesNoId,
     tProfile,
     tNotesMissing,
     tRemindNoId,
     tCreateBad,
     tRemindDays,
     tCreateUrgent,
     tCreateTop}

Modification(id, type, value) ==
    [task_id |-> id, type |-> type, value |-> value, reason |-> <<"why">>]

\* What _identify_task_modification may return for the current task
Modifications ==
    {Modification(1, sUrgency, <<"4">>),
     Modification(2, sUrgency, <<"7">>),
     Modification(2, sStatus, <<"c", "o", "m", "p", "l", "e", "t", "e", "d">>),
     Modification(1, sNotes, <<"m">>),
     Modification(2, sDescription, <<"m">>),
     Modification(1, sDescription, <<" ">>),
     Modification(9, sNotes, <<"m">>),
     Modification(1, sReminder,
         <<"2", "0", "2", "4", "-", "0", "2", "-", "2", "3", "T", "0", "9",
           ":", "0", "0", ":", "0", "0">>)}

NoOp ==
    [kind |-> "none", type |-> <<>>, task_id |-> None, details |-> <<>>,
     ret |-> <<>>, env |-> EnvOk, raised |-> FALSE]

\* no task has been read
NoTask == [task_id |-> None, status |-> "none"]

StoreIdle == nOps = 0 /\ lastOp = NoOp /\ readTask = NoTask

\* the turn variables while no turn of handle_task_input runs
TurnIdle == TurnInit

\* the stores a conversation may start from
StoreInits ==
    {InitStore,
     [InitStore EXCEPT !.tasks[1].status = sCompleted,
                       !.tasks[2].alertAt = AlertAt(1)]}

\* the actions _extract_actions finds in the texts, each with its text
DirectiveActions ==
    UNION {{[text |-> x, action |-> ExtractActions(x)[k]] :
               k \in 1..Len(ExtractActions(x))} : x \in DirectiveTexts}

\* a directive of a backend text is dispatched by _handle_action in the
\* environment env
DispatchDirective(d, env) ==
    LET Handled(r) ==
            /\ store' = r.st
            /\ lastOp' = [kind |-> "directive", type |-> d.action.type,
                          task_id |-> d.action.task_id,
                          details |-> d.action.details, ret |-> r.ret,
                          env |-> env, raised |-> r.raised]
    IN /\ nOps < MaxOps
       /\ Handled(HandleAction(d.action, d.text, store, now, env))
       /\ nOps' = nOps + 1
       /\ now' = now + 1
       /\ UNCHANGED readTask
       /\ UNCHANGED <<turnVars, routerVars, batchVars, profileVars>>

\* a conversational modification is applied by _apply_task_modification
ApplyModification(m) ==
    LET Applied(r) ==
            /\ store' = r.st
            /\ lastOp' = [kind |-> "modification", type |-> m.type,
                          task_id |-> m.task_id, details |-> m.value,
                          ret |-> r.ret, env |-> EnvOk, raised |-> FALSE]
    IN /\ nOps < MaxOps
       /\ Applied(ApplyTaskModification(m, store, now))
       /\ nOps' = nOps + 1
       /\ now' = now + 1
       /\ UNCHANGED readTask
       /\ UNCHANGED <<turnVars, routerVars, batchVars, profileVars>>

\* database.create_task called with any urgency: [ok, st]; ok is FALSE when
\* it raises ValueError (lines 280-281)
CreateTaskCall(st, description, urgency) ==
    IF ~UrgencyOk(urgency) THEN [ok |-> FALSE, st |-> st]
    ELSE [ok |-> TRUE, st |-> create_task(st, description, urgency)]

\* database.update_task_urgency called with any urgency: [ok, st]; ok is
\* FALSE when it raises ValueError (lines 209-210)
UpdateTaskUrgencyCall(st, id, urgency) ==
    IF ~UrgencyOk(urgency) THEN [ok |-> FALSE, st |-> st]
    ELSE [ok |-> TRUE, st |-> update_task_urgency(st, id, urgency)]

\* the urgencies callers pass to the store
UrgencyValues == {0, 1, 5, 6}

\* a caller (the API, the e-mail processor) calls the store directly
StoreCall(op, id, urgency) ==
    LET Called(r) ==
            /\ store' = r.st
            /\ lastOp' = [kind |-> "call", type |-> op, task_id |-> id,
                          details |-> <<ToString(urgency)>>,
                          ret |-> IF r.ok THEN <<"ok">> ELSE <<"ValueError">>,
                          env |-> EnvOk, raised |-> ~r.ok]
    IN /\ nOps < MaxOps
       /\ Called(IF op = "create_task"
                 THEN CreateTaskCall(store, <<"T">>, urgency)
                 ELSE UpdateTaskUrgencyCall(store, id, urgency))
       /\ nOps' = nOps + 1
       /\ now' = now + 1
       /\ UNCHANGED readTask
       /\ UNCHANGED <<turnVars, routerVars, batchVars, profileVars>>

\* the reminder times a conversational path is given
ReminderValues ==
    {<<"2", "0", "2", "4", "-", "0", "2", "-", "2", "3", "T", "0", "9", ":",
       "0", "0", ":", "0", "0">>,
     <<"s", "o", "o", "n">>}

\* a conversational path reads the task it is about: get_task_by_id in
\* _apply_task_modification (line 760), the task dictionary given to
\* process_selected_task
ReadTask(id) ==
    /\ readTask = NoTask
    /\ nOps < MaxOps
    /\ get_task_by_id(store, id)
    /\ readTask' = [task_id |-> id, status |-> store.tasks[id].status]
    /\ UNCHANGED <<nOps, lastOp, store, now>>
    /\ UNCHANGED <<turnVars, routerVars, batchVars, profileVars>>

\* the path sets the reminder: update_task_status(task_id,
\* task.get('status'), time) with the status it read (lines 792-799 and 535);
\* a time that does not parse is a ValueError and nothing is written
WriteReminder(value) ==
    /\ readTask # NoTask
    /\ store' = IF IsIsoTimestamp(value)
                THEN update_task_status(store, readTask.task_id,
                                        readTask.status, AlertAbs(value))
                ELSE store
    /\ lastOp' = [kind |-> "reminder", type |-> sReminder,
                  task_id |-> readTask.task_id, details |-> value,
                  ret |-> IF IsIsoTimestamp(value)
                          THEN <<"I've set a reminder for ">> \o value
                          ELSE <<>>,
                  env |-> EnvOk, raised |-> FALSE]
    /\ readTask' = NoTask
    /\ nOps' = nOps + 1
    /\ now' = now + 1
    /\ UNCHANGED <<turnVars, routerVars, batchVars, profileVars>>

\* the directives another turn dispatches meanwhile
ConcurrentActions ==
    {d \in DirectiveActions : d.text \in {tComplete, tHelp, tRemind}}

\* ------------------------------------------------------------ model router
UpperCase ==
    <<"A", "B", "C", "D", "E", "F", "G", "H", "I", "J", "K", "L", "M",
      "N", "O", "P", "Q", "R", "S", "T", "U", "V", "W", "X", "Y", "Z">>
LowerCase ==
    <<"a", "b", "c", "d", "e", "f", "g", "h", "i", "j", "k", "l", "m",
      "n", "o", "p", "q", "r", "s", "t", "u", "v", "w", "x", "y", "z">>

\* str.lower()
Lower(s) ==
    [i \in 1..Len(s) |->
        IF \E k \in 1..26 : UpperCase[k] = s[i]
        THEN LowerCase[CHOOSE k \in 1..26 : UpperCase[k] = s[i]]
        ELSE s[i]]

DeepThinkingKeywords ==
    {<<"a", "n", "a", "l", "y", "z", "e">>,
     <<"c", "o", "m", "p", "a", "r", "e">>,
     <<"e", "v", "a", "l", "u", "a", "t", "e">>,
     <<"s", "y", "n", "t", "h", "e", "s", "i", "z", "e">>}

\* AIAgent._requires_deep_thinking
RequiresDeepThinking(input_text) ==
    \E keyword \in DeepThinkingKeywords : ContainsSub(Lower(input_text), keyword)

\* the guard that opens process_input (line 62)
\* a turn that does not look at the availability of the backends
GuardSkipped(av) == FALSE

NoModelsAvailable(av) == ~av.chatgpt /\ ~av.o3

\* a selection by the keywords alone
UseO3MiniUnchecked(av, input_text) == RequiresDeepThinking(input_text)

\* use_o3_mini (lines 150-153)
UseO3Mini(av, input_text) == av.o3 /\ RequiresDeepThinking(input_text)

\* a fallback that retries the backend that has just failed
SameBackend(b) == b

\* the backend the handler of the primary's failure falls back to
Other(b) == IF b = "chatgpt" THEN "o3" ELSE "chatgpt"

\* the user texts drawn
UserInputs ==
    {<<"A", "n", "a", "l", "y", "z", "e", " ", "i", "t">>, <<"h", "i">>}

\* the context the caller passes: the greeting, a context with tasks, a
\* context without tasks, no context (None, the default)
Contexts == {"greeting", "tasks", "plain", "none"}

RouterStart ==
    /\ rpc = "start"
    /\ insight = FALSE
    /\ reconciled = FALSE
    /\ mode = "none"
    /\ cur = "none"
    /\ primary = "none"
    /\ calls = <<>>
    /\ streamed = 0
    /\ failedCalls = {}
    /\ rOut = <<>>
    /\ writes = <<>>
    /\ error = "none"

RouterIdle ==
    /\ RouterStart
    /\ avail = [chatgpt |-> TRUE, o3 |-> TRUE]
    /\ userInput = <<>>
    /\ ctx = "plain"

\* the backends whose invocation raised
FailedBackends == {calls[k] : k \in failedCalls}

\* line 62: neither backend is available
Unavailable ==
    /\ rpc = "start"
    /\ NoModelsAvailable(avail)
    /\ rpc' = "failed"
    /\ error' = "No AI models are available."
    /\ UNCHANGED <<avail, userInput, ctx, insight, reconciled, mode, cur,
                   primary, calls, streamed, failedCalls, rOut, writes>>
    /\ UNCHANGED <<turnVars, storeVars, batchVars, profileVars, store,
                   now>>

\* line 66 with context = None: context.get raises AttributeError, which the
\* handler of lines 212-214 logs and re-raises
ContextMissing ==
    /\ rpc = "start"
    /\ ~NoModelsAvailable(avail)
    /\ ctx = "none"
    /\ rpc' = "failed"
    /\ error' = "AttributeError"
    /\ UNCHANGED <<avail, userInput, ctx, insight, reconciled, mode, cur,
                   primary, calls, streamed, failedCalls, rOut, writes>>
    /\ UNCHANGED <<turnVars, storeVars, batchVars, profileVars, store,
                   now>>

\* lines 66-79: the profile manager looks at the input unless the turn is
\* the greeting; it reports an insight only when its own backend calls work,
\* and then it has written the profile
Reconcile(learned) ==
    /\ rpc = "start"
    /\ ~NoModelsAvailable(avail)
    /\ ctx # "none"
    /\ IF ctx = "greeting"
       THEN ~learned /\ UNCHANGED <<reconciled, insight, writes>>
       ELSE /\ learned => avail.chatgpt
            /\ reconciled' = TRUE
            /\ insight' = learned
            /\ writes' = IF learned THEN Append(writes, "profile") ELSE writes
    /\ rpc' = "route"
    /\ UNCHANGED <<avail, userInput, ctx, mode, cur, primary, calls,
                   streamed, failedCalls, rOut, error>>
    /\ UNCHANGED <<turnVars, storeVars, batchVars, profileVars, store,
                   now>>

\* lines 82-168: the branch of the turn and the backend it streams from
Route ==
    /\ rpc = "route"
    /\ IF ctx \in {"greeting", "tasks"}
       THEN /\ mode' = ctx
            /\ primary' = "chatgpt"
            /\ cur' = "chatgpt"
            /\ calls' = <<"chatgpt">>
            /\ UNCHANGED writes
       ELSE LET b == IF UseO3Mini(avail, userInput) THEN "o3" ELSE "chatgpt"
            IN /\ primary' = b
               /\ writes' = Append(writes, "agent_task")
               /\ IF b = "chatgpt" /\ ~avail.chatgpt
                  THEN \* line 164 raises; the handler falls back to o3
                       /\ mode' = "fallback"
                       /\ cur' = "o3"
                       /\ calls' = <<"o3">>
                  ELSE /\ mode' = "primary"
                       /\ cur' = b
                       /\ calls' = <<b>>
    /\ streamed' = 0
    /\ rpc' = "stream"
    /\ UNCHANGED <<avail, userInput, ctx, insight, reconciled, failedCalls,
                   rOut, error>>
    /\ UNCHANGED <<turnVars, storeVars, batchVars, profileVars, store,
                   now>>

\* ChatGPTAgent.process is an asynchronous generator; O3MiniAgent.process is
\* a coroutine that returns a str, so `async for` over it raises TypeError
\* before any fragment
CanStream(b, av) == b = "chatgpt" /\ av.chatgpt

\* the backend streamed from yields a fragment, which is yielded on
StreamChunk ==
    /\ rpc = "stream"
    /\ CanStream(cur, avail)
    /\ streamed < MaxChunks
    /\ streamed' = streamed + 1
    /\ rOut' = Append(rOut, [src |-> cur, call |-> Len(calls),
                             k |-> streamed + 1])
    /\ UNCHANGED <<rpc, avail, userInput, ctx, insight, reconciled, mode,
                   cur, primary, calls, failedCalls, writes, error>>
    /\ UNCHANGED <<turnVars, storeVars, batchVars, profileVars, store,
                   now>>

\* the backend streamed from raises: before any fragment when it cannot
\* stream, at any point otherwise (lines 174-191, 212-214)
StreamRaise ==
    /\ rpc = "stream"
    /\ failedCalls' = failedCalls \cup {Len(calls)}
    /\ IF mode = "primary" /\ avail[Other(cur)]
       THEN /\ mode' = "fallback"
            /\ cur' = Other(cur)
            /\ calls' = Append(calls, Other(cur))
            /\ streamed' = 0
            /\ UNCHANGED <<rpc, error>>
       ELSE /\ rpc' = "failed"
            /\ error' = "backend"
            /\ UNCHANGED <<mode, cur, calls, streamed>>
    /\ UNCHANGED <<avail, userInput, ctx, insight, reconciled, primary, rOut,
                   writes>>
    /\ UNCHANGED <<turnVars, storeVars, batchVars, profileVars, store,
                   now>>

\* the stream ends: the insight is mentioned, and the routing branch stores
\* the conversation (lines 136-139, 170-172, 193-210)
StreamEnd ==
    /\ rpc = "stream"
    /\ CanStream(cur, avail)
    /\ rOut' = IF insight /\ mode # "greeting"
               THEN Append(rOut, [src |-> "insight", call |-> 0, k |-> 0])
               ELSE rOut
    /\ writes' = IF mode \in {"primary", "fallback"}
                 THEN Append(writes, "conversation") ELSE writes
    /\ rpc' = "done"
    /\ UNCHANGED <<avail, userInput, ctx, insight, reconciled, mode, cur,
                   primary, calls, streamed, failedCalls, error>>
    /\ UNCHANGED <<turnVars, storeVars, batchVars, profileVars, store,
                   now>>

\* ------------------------------------------------------------ task batcher
\* the lengths len(str(task)) of the task dictionaries passed in
TaskLens == {7, 12, 22}

\* the values of MAX_TOKENS
TokenLimits == {2, 4}

\* a task dictionary: its id and the length of str(task)
TaskDict(id, len) == [id |-> id, len |-> len]

\* the lists _chunk_tasks may be passed: the task at position k has id k
TaskLists ==
    UNION {{[k \in 1..n |-> TaskDict(k, lens[k])] : lens \in [1..n -> TaskLens]} :
           n \in 0..MaxTasks}

\* task_size = len(str(task)) // 4
TaskSize(task) == task.len \div 4

\* a test that lets a chunk of MAX_EMAILS tasks take one more
ChunkFullOffByOne(chunk, size, task_size, max_emails, max_tokens) ==
    Len(chunk) > max_emails \/ size + task_size > max_tokens

\* a test that closes a chunk as soon as the size limit would be reached
ChunkFullEarly(chunk, size, task_size, max_emails, max_tokens) ==
    Len(chunk) >= max_emails \/ size + task_size >= max_tokens

\* len(current_chunk) >= MAX_EMAILS or current_size + task_size > MAX_TOKENS
ChunkFull(chunk, size, task_size, max_emails, max_tokens) ==
    Len(chunk) >= max_emails \/ size + task_size > max_tokens

\* a loop that starts the next chunk empty
NewChunkEmpty(task) == <<>>

\* current_chunk = [task]
NewChunk(task) == <<task>>

BatchIdle ==
    /\ bpc = "idle"
    /\ tasks = <<>>
    /\ MAX_EMAILS = 1
    /\ MAX_TOKENS = 0
    /\ nChunked = 0
    /\ batches = <<>>
    /\ current_chunk = <<>>
    /\ current_size = 0

\* _chunk_tasks(tasks) is called: lines 294-296
BatchStart ==
    /\ bpc = "loop"
    /\ tasks \in TaskLists
    /\ MAX_EMAILS \in 1..MaxCount
    /\ MAX_TOKENS \in TokenLimits
    /\ nChunked = 0
    /\ batches = <<>>
    /\ current_chunk = <<>>
    /\ current_size = 0

\* one iteration of the loop (lines 298-310)
ChunkTask ==
    LET Place(task, task_size) ==
            IF ChunkFull(current_chunk, current_size, task_size, MAX_EMAILS,
                         MAX_TOKENS)
            THEN /\ batches' = IF current_chunk # <<>>
                               THEN Append(batches, current_chunk)
                               ELSE batches
                 /\ current_chunk' = NewChunk(task)
                 /\ current_size' = task_size
            ELSE /\ batches' = batches
                 /\ current_chunk' = Append(current_chunk, task)
                 /\ current_size' = current_size + task_size
        Loop(task) == Place(task, TaskSize(task))
    IN /\ bpc = "loop"
       /\ nChunked < Len(tasks)
       /\ Loop(tasks[nChunked + 1])
       /\ nChunked' = nChunked + 1
       /\ UNCHANGED <<bpc, tasks, MAX_EMAILS, MAX_TOKENS>>
       /\ UNCHANGED <<turnVars, storeVars, routerVars, profileVars, store,
                   now>>

\* the loop is over: the last chunk is added and chunks is returned (lines
\* 312-315)
ChunkReturn ==
    /\ bpc = "loop"
    /\ nChunked = Len(tasks)
    /\ batches' = IF current_chunk # <<>> THEN Append(batches, current_chunk)
                  ELSE batches
    /\ bpc' = "returned"
    /\ UNCHANGED <<tasks, MAX_EMAILS, MAX_TOKENS, nChunked, current_chunk,
                   current_size>>
    /\ UNCHANGED <<turnVars, storeVars, routerVars, profileVars, store,
                   now>>

\* --------------------------------------------------------- profile manager
\* A profile document is a function from its top-level keys (sections) to
\* their values; a row of user_profiles is [structured_profile, raw_input],
\* raw_input being the sequence of the journal's entries.
EmptyDoc == [k \in {} |-> ""]

\* {"_meta": {"created_at": ...}}
FreshDoc == [k \in {"_meta"} |-> "created"]

\* the profile an installation may hold at the start
StoredDoc ==
    [k \in {"name", "skills", "_meta"} |->
        IF k = "name" THEN "Bob" ELSE IF k = "skills" THEN "sql"
        ELSE "created"]

\* the profiles the backend may answer the merge prompt with: all sections
\* kept, the section "skills" left out, no "_meta"
MergedDocs ==
    {[k \in {"name", "skills", "_meta"} |->
         IF k = "name" THEN "Rob" ELSE IF k = "skills" THEN "sql"
         ELSE "created"],
     [k \in {"name", "_meta"} |-> IF k = "name" THEN "Rob" ELSE "created"],
     [k \in {"name", "skills"} |-> IF k = "name" THEN "Rob" ELSE "sql"]}

\* The backend's answers to the analysis prompt: no ```json block, a block
\* json.loads rejects, and objects with the fields named in fields
AnalysisResponses ==
    {[kind |-> "no_block", fields |-> {}, relevant |-> FALSE, about |-> {}],
     [kind |-> "bad_json", fields |-> {}, relevant |-> FALSE, about |-> {}],
     [kind |-> "object", fields |-> {}, relevant |-> FALSE, about |-> {}],
     [kind |-> "object",
      fields |-> {"has_relevant_info", "extracted_info", "confidence"},
      relevant |-> FALSE, about |-> {}],
     [kind |-> "object",
      fields |-> {"has_relevant_info", "extracted_info", "confidence"},
      relevant |-> TRUE, about |-> {"name"}],
     [kind |-> "object", fields |-> {"has_relevant_info"},
      relevant |-> TRUE, about |-> {}]}

\* The backend's answers to the merge prompt
MergeResponses ==
    {[kind |-> "no_block", fields |-> {}, isDict |-> FALSE, profile |-> EmptyDoc],
     [kind |-> "bad_json", fields |-> {}, isDict |-> FALSE, profile |-> EmptyDoc],
     [kind |-> "object", fields |-> {"insight"}, isDict |-> FALSE,
      profile |-> EmptyDoc],
     [kind |-> "object", fields |-> {"profile", "insight"}, isDict |-> FALSE,
      profile |-> EmptyDoc]}
    \cup {[kind |-> "object", fields |-> {"profile", "insight"},
           isDict |-> TRUE, profile |-> d] : d \in MergedDocs}
    \cup {[kind |-> "object", fields |-> {"profile"}, isDict |-> TRUE,
           profile |-> d] : d \in MergedDocs}

\* the concurrent calls of process_input and their arguments
Calls == {"a", "b"}
is_direct_input == [c \in Calls |-> c = "a"]

\* Optional[str] None
NoInsight == "None"

\* re.search(r'```json\s*(\{.*?\})\s*```', text) finds a block and json.loads
\* accepts it (lines 102-113 and 168-180)
ParsesJson(resp) == resp.kind = "object"

\* analysis_data.get('has_relevant_info', False)
HasRelevantInfo(analysis) ==
    "has_relevant_info" \in analysis.fields /\ analysis.relevant

\* the session before its first statement
NoSession ==
    [row |-> 0,
     record |-> [structured_profile |-> EmptyDoc, raw_input |-> <<>>],
     analysis |-> [kind |-> "no_block", fields |-> {}, relevant |-> FALSE,
                   about |-> {}]]

NoReturn == [returned |-> FALSE, profile |-> EmptyDoc, insight |-> NoInsight]

Returned(profile, message) ==
    [returned |-> TRUE, profile |-> profile, insight |-> message]

\* db.query(UserProfile).first(), or the new record added and flushed in the
\* session when there is none (lines 119-127): row -1 is the uncommitted
\* insert, which no other session sees
ProfileRecord(rows) ==
    IF rows = <<>>
    THEN [row |-> -1,
          record |-> [structured_profile |-> FreshDoc, raw_input |-> <<>>]]
    ELSE [row |-> 1, record |-> rows[1]]

\* lines 186-192: '_meta' is added when missing and updated
WithMeta(doc, direct) ==
    [k \in DOMAIN doc \cup {"_meta"} |->
        IF k = "_meta"
        THEN IF direct THEN "direct_input" ELSE "conversation_insight"
        ELSE doc[k]]

\* lines 198-202: the entry appended to raw_input
JournalEntry(c) ==
    [label |-> IF is_direct_input[c] THEN "Direct Input"
               ELSE "Conversation Insight",
     input_text |-> c]

\* a write that keeps only the new entry
JournalOverwritten(raw_input, entry) == <<entry>>

\* lines 198-202: f"{profile_record.raw_input}\n\n--- ... ---\n{input_text}"
AppendedJournal(raw_input, entry) == Append(raw_input, entry)

\* db.commit() (line 211): the INSERT of the session's new record becomes
\* visible, or the UPDATE of the loaded row is written
Commit(rows, row, record) ==
    IF row = -1 THEN Append(rows, record)
    ELSE [rows EXCEPT ![row] = record]

ProfileIdle ==
    /\ profiles = <<>>
    /\ ppc = [c \in Calls |-> "idle"]
    /\ sess = [c \in Calls |-> NoSession]
    /\ pret = [c \in Calls |-> NoReturn]

\* both calls have been made and wait for the answer to the analysis prompt
ProfileStart ==
    /\ profiles \in {<<>>, <<[structured_profile |-> StoredDoc,
                              raw_input |-> <<>>]>>}
    /\ ppc = [c \in Calls |-> "extract"]
    /\ sess = [c \in Calls |-> NoSession]
    /\ pret = [c \in Calls |-> NoReturn]

\* call c gets the analysis (lines 96-160): it parses it, loads or creates
\* the profile record and sends the merge prompt
ProfileExtracted(c, analysis) ==
    LET Loaded(r) ==
            IF {"extracted_info", "confidence"} \subseteq analysis.fields
            THEN /\ sess' = [sess EXCEPT ![c] =
                                [row |-> r.row, record |-> r.record,
                                 analysis |-> analysis]]
                 /\ ppc' = [ppc EXCEPT ![c] = "merge"]
                 /\ pret' = pret
            ELSE \* KeyError in the merge prompt: lines 216-220
                 /\ sess' = sess
                 /\ ppc' = [ppc EXCEPT ![c] = "done"]
                 /\ pret' = [pret EXCEPT ![c] = Returned(EmptyDoc, NoInsight)]
    IN /\ ppc[c] = "extract"
       /\ IF ~ParsesJson(analysis) \/ ~HasRelevantInfo(analysis)
          THEN /\ sess' = sess
               /\ ppc' = [ppc EXCEPT ![c] = "done"]
               /\ pret' = [pret EXCEPT ![c] = Returned(EmptyDoc, NoInsight)]
          ELSE Loaded(ProfileRecord(profiles))
       /\ UNCHANGED profiles
       /\ UNCHANGED <<turnVars, storeVars, routerVars, batchVars, store, now>>

\* call c gets the merge result (lines 162-223): it parses it and commits
\* the merged profile and the journal entry
ProfileMerged(c, merge_result) ==
    LET current_profile == sess[c].record.structured_profile
        Saved(updated_profile) ==
            /\ profiles' = Commit(profiles, sess[c].row,
                               [structured_profile |-> updated_profile,
                                raw_input |->
                                    AppendedJournal(sess[c].record.raw_input,
                                                    JournalEntry(c))])
            /\ pret' = [pret EXCEPT ![c] = Returned(updated_profile, "<insight>")]
    IN /\ ppc[c] = "merge"
       /\ IF \/ ~ParsesJson(merge_result)
             \/ ~({"profile", "insight"} \subseteq merge_result.fields)
          THEN /\ profiles' = profiles
               /\ pret' = [pret EXCEPT ![c] = Returned(current_profile, NoInsight)]
          ELSE IF ~merge_result.isDict
          THEN \* TypeError at line 187: lines 216-220
               /\ profiles' = profiles
               /\ pret' = [pret EXCEPT ![c] = Returned(EmptyDoc, NoInsight)]
          ELSE Saved(WithMeta(merge_result.profile, is_direct_input[c]))
       /\ ppc' = [ppc EXCEPT ![c] = "done"]
       /\ UNCHANGED sess
       /\ UNCHANGED <<turnVars, storeVars, routerVars, batchVars, store, now>>

\* ----------------------------------------------------------- specifications
\* One turn of handle_task_input: the backend's deltas through both stream
\* buffers, then the dispatch loop.
Init ==
    /\ TurnInit
    /\ StoreIdle
    /\ RouterIdle
    /\ BatchIdle
    /\ ProfileIdle
    /\ store = InitStore
    /\ now = 0

Next ==
    \/ \E d \in Deltas : ChatDelta(d)
    \/ ChatEnd
    \/ FlushBuffer
    \/ \E env \in Envs : Dispatch(env)
    \/ Finish
    \/ BackendRaise
    \/ Abandon

Spec == Init /\ [][Next]_vars

\* One turn of handle_task_input whose deltas carry several directives: two
\* directives in one delta, the form kind:task_id:<id>:<payload>, and a
\* create_task directive.
FragmentDeltas ==
    {dProse, dBracket, dTwoDirectives, dProseNamed, dProseTextTarget,
     dProseRemindSoon, dProseRemindLoose, dProseMissingTarget,
     tCreate}

FragmentNext ==
    \/ \E d \in FragmentDeltas : ChatDelta(d)
    \/ ChatEnd
    \/ FlushBuffer
    \/ Dispatch(EnvOk)
    \/ Finish

SpecFragments == Init /\ [][FragmentNext]_vars

\* One turn whose backend produces prose, bracketed prose, whole directives
\* and a directive it never closes.
ChatDeltas == {dProse, dBracket, dNotes, dUnterminated, dTwoDirectives}

ChatNext ==
    \/ \E d \in ChatDeltas : ChatDelta(d)
    \/ ChatEnd
    \/ FlushBuffer
    \/ Dispatch(EnvOk)
    \/ Finish

SpecChat == Init /\ [][ChatNext]_vars

\* The store under any sequence of dispatched directives and conversational
\* modifications.
StoreInit ==
    /\ TurnIdle
    /\ StoreIdle
    /\ RouterIdle
    /\ BatchIdle
    /\ ProfileIdle
    /\ store \in StoreInits
    /\ now = 0

StoreNext ==
    \/ \E d \in DirectiveActions : \E env \in Envs : DispatchDirective(d, env)
    \/ \E m \in Modifications : ApplyModification(m)
    \/ \E u \in UrgencyValues :
           \/ StoreCall("create_task", None, u)
           \/ \E id \in {1, 9} : StoreCall("update_task_urgency", id, u)

SpecStore == StoreInit /\ [][StoreNext]_vars

\* One turn of process_input.
RouterInit ==
    /\ TurnIdle
    /\ StoreIdle
    /\ RouterStart
    /\ avail \in [chatgpt : BOOLEAN, o3 : BOOLEAN]
    /\ userInput \in UserInputs
    /\ ctx \in Contexts
    /\ BatchIdle
    /\ ProfileIdle
    /\ store = InitStore
    /\ now = 0

RouterNext ==
    \/ Unavailable
    \/ ContextMissing
    \/ \E learned \in BOOLEAN : Reconcile(learned)
    \/ Route
    \/ StreamChunk
    \/ StreamRaise
    \/ StreamEnd

SpecRouter == RouterInit /\ [][RouterNext]_vars

\* One call of _chunk_tasks, for every list and every pair of limits.
BatchInit ==
    /\ TurnIdle
    /\ StoreIdle
    /\ RouterIdle
    /\ BatchStart
    /\ ProfileIdle
    /\ store = InitStore
    /\ now = 0

BatchNext ==
    \/ ChunkTask
    \/ ChunkReturn

SpecBatch == BatchInit /\ [][BatchNext]_vars

\* Two calls of ProfileManager.process_input that interleave at their
\* suspension points, the two model calls.
ProfileInit ==
    /\ TurnIdle
    /\ StoreIdle
    /\ RouterIdle
    /\ BatchIdle
    /\ ProfileStart
    /\ store = InitStore
    /\ now = 0

ProfileNext ==
    \/ \E c \in Calls : \E analysis \in AnalysisResponses :
           ProfileExtracted(c, analysis)
    \/ \E c \in Calls : \E merge_result \in MergeResponses :
           ProfileMerged(c, merge_result)

SpecProfile == ProfileInit /\ [][ProfileNext]_vars

\* A conversational path that sets a reminder while other turns dispatch
\* directives against the same store.
ReminderInit == StoreInit

ReminderNext ==
    \/ \E id \in {1, 2} : ReadTask(id)
    \/ \E value \in ReminderValues : WriteReminder(value)
    \/ \E d \in ConcurrentActions : DispatchDirective(d, EnvOk)

SpecReminder == ReminderInit /\ [][ReminderNext]_vars

\* ------------------------------------------------------------------ claims
\* text that starts with "[" and has no closing "]"
Unterminated(buf) == StartsWith(buf, <<"[">>) /\ ~Contains(buf, "]")

\* C1: once the stream has ended and the residual buffer has been flushed,
\* the fragments handle_task_input yielded (dispatch feedback excluded)
\* concatenate to the concatenation of the fragments it received with
\* exactly the substrings that match the directive grammar removed.
C1_YieldedIsInputMinusDirectives ==
    pc \in {"dispatch", "done"}
        => Concat(yielded) = StripDirectives(Concat(chunks))

\* C2: nothing the caller receives from a turn of handle_task_input, streamed
\* fragments and dispatch feedback alike, contains a substring that matches
\* the directive grammar.
C2_DirectiveNeverShown ==
    /\ ~HasDirective(Concat(yielded))
    /\ \A k \in 1..Len(feedback) : ~HasDirective(feedback[k])

\* C3: when the stream ends while the buffer of ChatGPTAgent.process, or of
\* handle_task_input, holds text that starts with "[" and has no "]", the
\* end of stream yields that text verbatim as one fragment; the text was not
\* yielded while it was held, and nothing is yielded by that buffer
\* afterwards.
C3_UnterminatedFlushedOnce ==
    [][/\ (pc = "stream" /\ pc' = "flush" /\ Unterminated(cbuf))
            => chunks' = Append(chunks, cbuf)
       /\ (pc = "flush" /\ pc' = "dispatch" /\ Unterminated(buffer))
            => yielded' = Append(yielded, buffer)
       /\ (pc = "stream" /\ pc' = "stream" /\ Unterminated(cbuf'))
            => chunks' = chunks
       /\ (pc = "stream" /\ pc' = "stream" /\ Unterminated(buffer'))
            => yielded' = yielded
       /\ pc # "stream" => chunks' = chunks
       /\ pc \notin {"stream", "flush"} => yielded' = yielded]_vars

\* C3 happens: handle_task_input has flushed the unterminated text it held,
\* which ChatGPTAgent.process had flushed to it
C3_Witness ==
    /\ pc = "dispatch"
    /\ buffer = dUnterminated
    /\ chunks = <<dUnterminated>>
    /\ yielded = <<dUnterminated>>

\* C4: under every directive dispatched by _handle_action and every
\* modification applied by _apply_task_modification, each task's description
\* before the step is a prefix of its description after the step.
C4_DescriptionsAppendOnly ==
    [][\A id \in 1..Len(store.tasks) :
           /\ id <= Len(store'.tasks)
           /\ IsPrefix(store.tasks[id].description,
                       store'.tasks[id].description)]_vars

\* C4 happens: a modification of type description has just been applied and
\* both descriptions have grown
C4_Witness ==
    /\ lastOp.kind = "modification"
    /\ lastOp.type = sDescription
    /\ lastOp.ret # <<>>
    /\ Len(store.tasks[1].description) > 1
    /\ Len(store.tasks[2].description) > 1

\* C5: dispatching a directive of kind notes or description whose target is
\* an existing task leaves that task's description equal to the description
\* before, followed by the timestamp marker and the payload.
C5_NotesOrDescriptionAppends ==
    [][(/\ nOps' = nOps + 1
        /\ lastOp'.kind = "directive"
        /\ lastOp'.type \in {sNotes, sDescription}
        /\ TaskExists(store, lastOp'.task_id))
           => store'.tasks[lastOp'.task_id].description
                  = store.tasks[lastOp'.task_id].description
                    \o UpdateMarker(now) \o lastOp'.details]_vars

\* C6: no fragment yielded to the caller of process_input comes from an
\* invocation of a backend that has failed.
C6_NoFragmentOfFailedBackend ==
    \A k \in 1..Len(rOut) :
        rOut[k].src # "insight" => rOut[k].call \notin failedCalls

\* C7: when the turn of process_input has ended, the selected backend raised,
\* and the other backend is available and has not failed, the turn has
\* completed and every fragment of a backend the caller received comes from
\* the other backend.
C7_FallbackCompletesTurn ==
    (/\ rpc \in {"done", "failed"}
     /\ primary \in FailedBackends
     /\ avail[Other(primary)]
     /\ Other(primary) \notin FailedBackends)
        => /\ rpc = "done"
           /\ \A k \in 1..Len(rOut) :
                  rOut[k].src \in {"insight", Other(primary)}

\* C8: when neither backend is available, the turn of process_input, once it
\* has taken a step, has failed with the unavailability error, has yielded
\* no fragment, has not invoked the profile manager and has written nothing.
C8_UnavailableFailsFirst ==
    (~avail.chatgpt /\ ~avail.o3 /\ rpc # "start")
        => /\ rpc = "failed"
           /\ error = "No AI models are available."
           /\ rOut = <<>>
           /\ ~reconciled
           /\ writes = <<>>
           /\ calls = <<>>

\* C8 happens: the turn has failed with neither backend available
C8_Witness ==
    /\ ~avail.chatgpt
    /\ ~avail.o3
    /\ rpc = "failed"
    /\ error = "No AI models are available."

\* C9: the actions of one turn are dispatched in the order in which their
\* directives occur in the backend output.
C9_DispatchInOrderOfOccurrence ==
    \A i, j \in 1..Len(dispatched) :
        i < j => dispatched[i].pos <= dispatched[j].pos

\* C10: while the backend stream is being consumed or flushed, and after the
\* caller has abandoned the turn or the backend has raised at such a point,
\* no action has been dispatched and the store is the store the turn started
\* with.
C10_NothingAppliedBeforeEndOfStream ==
    (\/ pc \in {"stream", "flush"}
     \/ pc \in {"abandoned", "raised"} /\ exitPc \in {"stream", "flush"})
        => /\ store = InitStore
           /\ nDone = 0
           /\ dispatched = <<>>

\* C10 happens: the caller abandoned the turn mid-stream after the response
\* had received a complete directive
C10_Witness ==
    /\ pc = "abandoned"
    /\ exitPc = "stream"
    /\ ExtractActions(response) # <<>>

\* C11: no exception leaves _handle_action, whatever the directive and
\* whatever store or backend call fails while it is applied: the turn is
\* never ended by a raise out of the dispatch loop, every dispatch so far
\* returned to the loop, and a turn that is done has dispatched every
\* directive of the response, those after a failed one included.  Before the
\* first delta the same is checked of every directive text of DirectiveTexts
\* in every environment.
C11_DispatcherNeverRaises ==
    /\ ~(pc = "raised" /\ exitPc = "dispatch")
    /\ Len(faults) = nDone /\ Len(dispatched) = nDone
    /\ pc = "done" => nDone = Len(ExtractActions(response))
    /\ (pc = "stream" /\ nDeltas = 0) =>
           \A d \in DirectiveActions : \A env \in Envs :
               ~HandleAction(d.action, d.text, store, now, env).raised

\* a turn is done whose first dispatch, a complete directive, met a failing
\* store, and a later directive was dispatched after it
C11_Witness ==
    /\ pc = "done"
    /\ nDone >= 2
    /\ dispatched[1].type = sComplete
    /\ faults[1].storeFail
    /\ store.tasks[1].status = sPending

\* the failure annotations of _handle_action (lines 1075, 1078, 1130, 1167
\* and 1209), by the element that carries their wording
FailureMarks ==
    {"(x) Failed to create task - invalid format",
     "(x) Failed to create task",
     "(x) Failed to set reminder for Task #",
     "(x) Failed to create email draft - invalid format",
     "(x) Failed to update profile"}

FailureAnnotated(text) == \E k \in 1..Len(text) : text[k] \in FailureMarks

\* the dispatch recorded in op reaches a call of the store: the update of
\* complete, help and notes, the task lookup or the update of remind, the
\* insert of create_task, the task lookup of draft_email
CallsStore(op) ==
    \/ op.type \in {sComplete, sHelp, sNotes} /\ Truthy(op.task_id)
    \/ /\ op.type = sRemind
       /\ op.task_id # Missing
       /\ \/ ~Truthy(op.task_id)
          \/ ParseReminderTime(NormalizeTime(op.details), 0).ok
    \/ op.type = sCreateTask /\ JsonLoads(op.details).ok
    \/ /\ op.type = sDraftEmail
       /\ Truthy(op.task_id)
       /\ JsonLoads(IF StartsWith(Strip(op.details), <<"{">>)
                    THEN Strip(op.details)
                    ELSE <<"{">> \o Strip(op.details) \o <<"}">>).ok

\* C12: whenever a store call fails while _handle_action applies a
\* directive, the text it returns carries a failure annotation.
C12_StoreFailureAnnotated ==
    (/\ lastOp.kind = "directive"
     /\ lastOp.env.storeFail
     /\ CallsStore(lastOp))
        => FailureAnnotated(lastOp.ret)

\* C13: dispatching a create_task directive whose payload json.loads
\* rejects returns a text that carries a failure annotation and leaves the
\* tasks of the store as they were, in every environment.
C13_MalformedCreateAnnotated ==
    [][(/\ nOps' = nOps + 1
        /\ lastOp'.kind = "directive"
        /\ lastOp'.type = sCreateTask
        /\ ~JsonLoads(lastOp'.details).ok)
           => /\ FailureAnnotated(lastOp'.ret)
              /\ store'.tasks = store.tasks]_vars

\* the directive [ACTION:create_task:{not json}] has been dispatched
C13_Witness ==
    /\ lastOp.kind = "directive"
    /\ lastOp.type = sCreateTask
    /\ lastOp.details = <<"{", "n", "o", "t", " ", "j", "s", "o", "n", "}">>
    /\ lastOp.ret = FbCreateInvalid

\* a payload of the form <N>h or <N>d
IsHoursOrDays(details) ==
    /\ Len(details) >= 2
    /\ details[Len(details)] \in {"h", "d"}
    /\ AllIn(SubSeq(details, 1, Len(details) - 1), Digits)

\* the hours a payload <N>h or <N>d stands for
PayloadHours(details) ==
    DigitsValue(SubSeq(details, 1, Len(details) - 1))
    * (IF details[Len(details)] = "d" THEN 24 ELSE 1)

\* text is a reminder confirmation that names task T
ConfirmsReminder(text, T) ==
    \E k \in 1..Len(text) :
        /\ text[k] = "(clock) Reminder set for Task #"
        /\ k + Len(Str(T)) + 1 <= Len(text)
        /\ SubSeq(text, k + 1, k + Len(Str(T))) = Str(T)
        /\ text[k + Len(Str(T)) + 1] = " at "

\* C14: dispatching a remind directive whose target T is a task of the store
\* and whose payload is <N>h (<N>d), with the store working, sets task T's
\* alert to the dispatch time plus N hours (24 N hours) and returns a
\* confirmation that names task T.
C14_RemindSetsAlert ==
    [][(/\ nOps' = nOps + 1
        /\ lastOp'.kind = "directive"
        /\ lastOp'.type = sRemind
        /\ lastOp'.task_id \in 1..Len(store.tasks)
        /\ IsHoursOrDays(lastOp'.details)
        /\ ~lastOp'.env.storeFail)
           => /\ store'.tasks[lastOp'.task_id].alertAt
                     = AlertAt(now + PayloadHours(lastOp'.details))
              /\ ConfirmsReminder(lastOp'.ret, lastOp'.task_id)]_vars

\* task 2 carries the alert of [ACTION:remind:2:2h], dispatched first, and
\* [ACTION:remind:1:3d] has just set task 1's alert three days ahead
C14_Witness ==
    /\ lastOp.kind = "directive"
    /\ lastOp.type = sRemind
    /\ lastOp.task_id = 1
    /\ lastOp.details = <<"3", "d">>
    /\ store.tasks[1].alertAt = AlertAt(now - 1 + 72)
    /\ store.tasks[2].alertAt = AlertAt(2)

RECURSIVE EstimatedSize(_)
\* the total estimated size of a batch: the sum of len(str(task)) // 4
EstimatedSize(batch) ==
    IF batch = <<>> THEN 0
    ELSE TaskSize(Head(batch)) + EstimatedSize(Tail(batch))

\* the batch is within both limits, or is one record that is oversized alone
WithinLimits(batch) ==
    /\ Len(batch) <= MAX_EMAILS
    /\ \/ EstimatedSize(batch) <= MAX_TOKENS
       \/ Len(batch) = 1 /\ TaskSize(batch[1]) > MAX_TOKENS

\* C15: for every task list and limits MAX_EMAILS >= 1 and MAX_TOKENS, every
\* batch _chunk_tasks returns (and every batch it has closed so far) has at
\* most MAX_EMAILS records and an estimated size of at most MAX_TOKENS,
\* unless it is a single record whose own size exceeds MAX_TOKENS.
C15_BatchesWithinLimits ==
    bpc \in {"loop", "returned"} =>
        \A k \in 1..Len(batches) : WithinLimits(batches[k])

\* a call has returned a batch of MAX_EMAILS records, a batch cut short by
\* MAX_TOKENS, and an oversized record alone
C15_Witness ==
    /\ bpc = "returned"
    /\ \E k \in 1..Len(batches) :
           Len(batches[k]) = MAX_EMAILS /\ MAX_EMAILS >= 2
    /\ \E k \in 1..Len(batches) :
           Len(batches[k]) = 1 /\ TaskSize(batches[k][1]) > MAX_TOKENS
    /\ \E k \in 1..Len(batches) :
           /\ Len(batches[k]) < MAX_EMAILS
           /\ EstimatedSize(batches[k]) <= MAX_TOKENS
           /\ k < Len(batches)

\* C16: the batches _chunk_tasks returns are an ordered partition of its
\* input: none is empty, their concatenation in order is the input list, and
\* the empty list gives no batch.
C16_BatchesPartitionInput ==
    bpc = "returned" =>
        /\ \A k \in 1..Len(batches) : batches[k] # <<>>
        /\ Concat(batches) = tasks
        /\ tasks = <<>> => batches = <<>>

\* a call with four tasks has returned three batches
C16_Witness ==
    /\ bpc = "returned"
    /\ Len(tasks) = 4
    /\ Len(batches) = 3
    /\ Concat(batches) = tasks

\* every task of the store has an urgency in 1..5
UrgencyInRange ==
    \A id \in 1..Len(store.tasks) : store.tasks[id].urgency \in 1..5

\* a direct call of create_task or update_task_urgency with an urgency
\* outside 1..5 ends in an error and leaves the store as it was
RejectsOutOfRange ==
    (/\ nOps' = nOps + 1
     /\ lastOp'.kind = "call"
     /\ lastOp'.details \notin {<<ToString(u)>> : u \in 1..5})
        => lastOp'.raised /\ store' = store

\* C17: in every reachable state of the task store each task's urgency is an
\* integer in 1..5, after any sequence of dispatched directives, create_task
\* included, conversational modifications and direct store calls; and
\* create_task and update_task_urgency reject any other urgency with an
\* error, leaving the store unchanged.
C17_UrgencyAlwaysInRange == []UrgencyInRange /\ [][RejectsOutOfRange]_vars

\* a directive has created a task of urgency 5, a modification has set task
\* 1's urgency to 4, and a direct update_task_urgency with urgency 6 has just
\* been rejected
C17_Witness ==
    /\ lastOp.kind = "call"
    /\ lastOp.type = "update_task_urgency"
    /\ lastOp.details = <<"6">>
    /\ lastOp.raised
    /\ Len(store.tasks) = 3
    /\ store.tasks[3].urgency = 5
    /\ store.tasks[1].urgency = 4


\* what get_profile answers: the document of the first row, or the default
\* document when there is no row
StoredProfile(rows) ==
    IF rows = <<>> THEN FreshDoc ELSE rows[1].structured_profile

\* C18: at most one profile record exists in the store in every reachable
\* state, also when two calls of process_input on an empty store interleave
\* at the extraction and merge model calls.
C18_AtMostOneProfileRecord == Len(profiles) <= 1

\* both calls started on the empty store and both have committed
C18_TwoCallsCommitted ==
    /\ \A c \in Calls : ppc[c] = "done" /\ sess[c].row = -1
    /\ \A c \in Calls : pret[c].insight # NoInsight

\* the response cannot be parsed: no JSON block or malformed JSON
Unparseable(resp) == ~ParsesJson(resp)

\* the merge response cannot be parsed, or lacks 'profile' or 'insight'
MergeUnparseable(resp) ==
    Unparseable(resp) \/ ~({"profile", "insight"} \subseteq resp.fields)

\* the call returned no insight with the stored profile, and stored nothing
KeptProfile(c) ==
    /\ pret'[c].returned
    /\ pret'[c].insight = NoInsight
    /\ pret'[c].profile = StoredProfile(profiles)
    /\ profiles' = profiles

\* C19: when the extraction response or the merge response cannot be parsed
\* (no JSON block, malformed JSON, missing profile or insight field),
\* process_input returns no insight together with the stored profile
\* document, and leaves the stored document and the journal unchanged.
C19_ParseFailureKeepsProfile ==
    [][\A c \in Calls :
         /\ \A analysis \in AnalysisResponses :
              Unparseable(analysis) /\ ProfileExtracted(c, analysis)
                  => KeptProfile(c)
         /\ \A merge_result \in MergeResponses :
              MergeUnparseable(merge_result) /\ ProfileMerged(c, merge_result)
                  => KeptProfile(c)]_vars

\* the sections of the row the session of c writes to, before the commit
PreviousSections(c) ==
    IF sess[c].row = -1 THEN {}
    ELSE DOMAIN profiles[sess[c].row].structured_profile

\* the sections of the row the session of c wrote
PersistedSections(c) ==
    IF sess[c].row = -1
    THEN DOMAIN profiles'[Len(profiles')].structured_profile
    ELSE DOMAIN profiles'[sess[c].row].structured_profile

\* C20: for every merge response, the structured profile that process_input
\* persists still has every section of the previously stored profile that
\* the extracted information does not concern.
C20_UnrelatedSectionsKept ==
    [][\A c \in Calls :
         (ppc[c] = "merge" /\ ppc'[c] = "done" /\ profiles' # profiles)
             => (PreviousSections(c) \ sess[c].analysis.about)
                    \subseteq PersistedSections(c)]_vars


\* the journal of the profile record that readers see (get_raw_profile)
StoredJournal(rows) == IF rows = <<>> THEN <<>> ELSE rows[1].raw_input

\* the merge response parses: a JSON object with a 'profile' object and an
\* 'insight'
MergeParses(resp) == ~MergeUnparseable(resp) /\ resp.isDict

\* the update of call c with merge response resp has been accepted: the entry
\* is at the end of the journal after all earlier entries, the stored
\* document is the merged one with its metadata stamped, and the insight is
\* returned
UpdateAccepted(c, resp) ==
    /\ StoredJournal(profiles') =
           Append(StoredJournal(profiles), JournalEntry(c))
    /\ DOMAIN StoredProfile(profiles') = DOMAIN resp.profile \cup {"_meta"}
    /\ \A k \in DOMAIN resp.profile \ {"_meta"} :
           StoredProfile(profiles')[k] = resp.profile[k]
    /\ StoredProfile(profiles')["_meta"] =
           (IF is_direct_input[c] THEN "direct_input"
            ELSE "conversation_insight")
    /\ pret'[c] = Returned(StoredProfile(profiles'), "<insight>")

\* the record of call c is in the store as the call read it: no other call
\* has committed since
Undisturbed(c) ==
    IF sess[c].row = -1 THEN profiles = <<>>
    ELSE profiles[sess[c].row] = sess[c].record

DispatchedOnce(d, st) == HandleAction(d.action, d.text, st, now, EnvOk).st

DispatchedTwice(d, st) == DispatchedOnce(d, DispatchedOnce(d, st))

\* C22: directive application is idempotent: for every directive kind,
\* dispatching the same directive twice in succession through _handle_action
\* leaves the task and profile store as dispatching it once does.
C22_DispatchIdempotent ==
    \A d \in DirectiveActions :
        DispatchedTwice(d, store) = DispatchedOnce(d, store)


\* the fragments of backends the caller received, in order
BackendFragments == SelectSeq(rOut, LAMBDA f : f.src # "insight")

C24_AbsentContextCompletes ==
    (ctx = "none" /\ avail.chatgpt /\ rpc \in {"done", "failed"}
     /\ failedCalls = {})
        => /\ rpc = "done"
           /\ Len(BackendFragments) = streamed


\* the action a was handed to the dispatcher during the turn
WasDispatched(a) ==
    \E j \in 1..Len(dispatched) :
        /\ dispatched[j].type = a.type
        /\ dispatched[j].task_id = a.task_id
        /\ dispatched[j].details = a.details

\* the directives of the backend's raw output, as actions
RawActions == ExtractActions(rawIn)

\* C25: every complete directive of the backend's raw output that matches
\* the grammar has been handed to the dispatcher when the turn is done, also
\* a directive that ChatGPTAgent.process kept out of the fragments it
\* yielded.
C25_HiddenDirectiveDispatched ==
    pc = "done" => \A k \in 1..Len(RawActions) : WasDispatched(RawActions[k])


\* the number of directives in text: the places where a substring that
\* matches the grammar starts
DirectiveCount(text) ==
    Cardinality({i \in 1..Len(text) : MatchesGrammarAt(text, i)})

\* C26: each directive occurrence results in exactly one dispatched action:
\* the response assembled by handle_task_input holds each directive it
\* received once, _extract_actions yields one action per occurrence, and so
\* many actions have been dispatched when the turn is done; also for the form
\* kind:task_id:<id>:<payload> and for a directive received whole in one
\* fragment.
C26_OneActionPerDirective ==
    pc \in {"dispatch", "done"}
        => /\ DirectiveCount(response) = DirectiveCount(Concat(chunks))
           /\ Len(ExtractActions(response)) = DirectiveCount(response)
           /\ pc = "done" => Len(dispatched) = DirectiveCount(Concat(chunks))


\* f is one confirmation or failure string and nothing else: "\n[...]"
BareConfirmation(f) ==
    /\ Len(f) >= 3
    /\ f[1] = "\n"
    /\ f[2] = "["
    /\ f[Len(f)] = "]"
    /\ \A i \in 3..(Len(f) - 1) : f[i] \notin {"[", "]"}

\* C27: after the backend stream has ended, the only text handle_task_input
\* adds to the visible output is one confirmation or failure string per
\* dispatched directive, in dispatch order; text of the response that was
\* already streamed is not emitted again.
C27_OnlyConfirmationsAfterStream ==
    /\ Len(feedback) <= nDone
    /\ \A k \in 1..Len(feedback) : BareConfirmation(feedback[k])


\* the extractor accepts the directive string c
ExtractorAccepts(c) == ExtractActions(c) # <<>>

\* the bracketed strings that start the deltas
LeadingCandidates ==
    {CandidateAt(d, 1) : d \in FragmentDeltas} \ {<<>>}

\* C28: the recognizer of the stream buffers and the extractor accept the
\* same directive strings; in particular a complete create_task directive at
\* the start of the buffer is recognized, kept out of the visible output and
\* dispatched.
C28_RecognizerMatchesExtractor ==
    /\ \A c \in LeadingCandidates : IsActionDirective(c) <=> ExtractorAccepts(c)
    /\ (pc = "done" /\ rawIn = tCreate)
           => /\ yielded = <<>>
              /\ Len(dispatched) = 1
              /\ dispatched[1].type = sCreateTask


\* the directive kinds that need a target task
TargetKinds == {sComplete, sRemind, sHelp, sNotes, sDraftEmail}

\* the last operation dispatched, in this step, a directive of a kind that
\* needs a target and carries no task id, with no fault in the environment
DispatchedWithoutTarget ==
    /\ nOps' = nOps + 1
    /\ lastOp'.kind = "directive"
    /\ lastOp'.type \in TargetKinds
    /\ lastOp'.task_id = None
    /\ lastOp'.env = EnvOk

\* the store after a directive of kind type with payload details has been
\* applied to task id
AppliedTo(type, id, details) ==
    HandleAction([type |-> type, task_id |-> id, details |-> details,
                  subtype |-> <<>>, pos |-> 1, pat |-> "numeric"],
                 <<>>, store, now, EnvOk).st

\* C29: a directive of a kind that needs a target and carries no resolved
\* task id is resolved to the first task that is still incomplete, when there
\* is one, and is applied to that task.
C29_ResolvedToFirstIncomplete ==
    [][(DispatchedWithoutTarget /\ get_tasks(store) # <<>>)
           => store' = AppliedTo(lastOp'.type, get_tasks(store)[1],
                                 lastOp'.details)]_vars


\* C30: when a directive of a kind that needs a target still has no resolved
\* task id because no incomplete task exists, _handle_action changes nothing
\* in the store and returns no text for handle_task_input to yield.
C30_UnresolvedDirectiveSilent ==
    [][(DispatchedWithoutTarget /\ get_tasks(store) = <<>>)
           => /\ store' = store
              /\ lastOp'.ret = <<>>]_vars

\* the last operation dispatched, in this step, a directive of kind type
DispatchedKind(type) ==
    /\ nOps' = nOps + 1
    /\ lastOp'.kind = "directive"
    /\ lastOp'.type = type

\* C31: dispatching a remind directive leaves the status of every task as it
\* was before the dispatch: a task that was completed or half-completed
\* keeps that status, only its alert time may change.
C31_RemindKeepsStatus ==
    [][DispatchedKind(sRemind)
           => /\ Len(store'.tasks) = Len(store.tasks)
              /\ \A i \in 1..Len(store.tasks) :
                     store'.tasks[i].status = store.tasks[i].status]_vars


\* the matches of the three-field patterns in the response whose target
\* field does not parse as an integer, each with the pattern that matched
TextTargets ==
    UNION {{[pat |-> p, m |-> FindAll(p, response)[k]] :
               k \in {j \in 1..Len(FindAll(p, response)) :
                         ~IntOk(FindAll(p, response)[j].g[2])}} :
           p \in {"numeric", "named"}}

\* C32: when the target field of a matched directive does not parse as an
\* integer, the action _extract_actions builds has task_id None and its
\* payload contains the target text and the directive's own payload text.
C32_TextTargetKeptInPayload ==
    pc \in {"dispatch", "done"}
        => \A x \in TextTargets :
               /\ TaskAction(x.pat, x.m).task_id = None
               /\ ContainsSub(TaskAction(x.pat, x.m).details, x.m.g[2])
               /\ ContainsSub(TaskAction(x.pat, x.m).details, x.m.g[3])


\* the payload is one of the reminder time tokens: <N>h, <N>d, next_debrief
\* or an absolute timestamp
IsTimeToken(details) ==
    \/ IsHoursOrDays(details)
    \/ details = sNextDebrief
    \/ IsTimestamp(details)

\* this step of the turn dispatches a remind directive whose target is a
\* task of the store and whose payload is no time token
DispatchesInvalidRemind ==
    /\ nDone' = nDone + 1
    /\ dispatched'[nDone'].type = sRemind
    /\ dispatched'[nDone'].task_id \in 1..Len(store.tasks)
    /\ ~IsTimeToken(dispatched'[nDone'].details)

\* C33: dispatching a remind directive whose target is a task of the store
\* and whose payload is no time token yields a failure annotation, leaves
\* that task's status and alert time as they were, and does not raise, so
\* that the remaining directives of the turn are dispatched.
C33_InvalidReminderAnnotated ==
    [][DispatchesInvalidRemind
           => /\ Len(feedback') = Len(feedback) + 1
              /\ FailureAnnotated(feedback'[Len(feedback')])
              /\ store'.tasks[dispatched'[nDone'].task_id]
                     = store.tasks[dispatched'[nDone'].task_id]
              /\ pc' = "dispatch"]_vars


\* C34: in a turn of process_input at most two backend invocations are made,
\* the second only after the first has failed and never of the backend that
\* failed; when the fallback has failed, or the only invocation has failed
\* and the other backend is not available, the turn has failed.
C34_AtMostOneFallback ==
    /\ Len(calls) <= 2
    /\ \A k \in failedCalls : \A j \in 1..Len(calls) :
           j > k => calls[j] # calls[k]
    /\ Len(calls) = 2 => 1 \in failedCalls
    /\ 2 \in failedCalls => rpc = "failed" /\ error = "backend"
    /\ (1 \in failedCalls /\ ~avail[Other(calls[1])])
           => rpc = "failed" /\ error = "backend"

\* the primary backend failed, the fallback streamed a fragment and failed
\* too, and the turn has failed
C34_Witness ==
    /\ calls = <<"o3", "chatgpt">>
    /\ failedCalls = {1, 2}
    /\ rOut # <<>>
    /\ rpc = "failed"


\* the batch could not have taken the record next: with it the batch would
\* have more than MAX_EMAILS records or an estimated size above MAX_TOKENS
CouldNotTake(batch, next) ==
    \/ Len(batch) + 1 > MAX_EMAILS
    \/ EstimatedSize(batch) + TaskSize(next) > MAX_TOKENS

SuccessMarks ==
    {" has been marked as completed",
     "(clock) Reminder set for Task #",
     " has been marked as in-progress"}

\* text carries a success confirmation
SuccessConfirmed(text) == \E k \in 1..Len(text) : text[k] \in SuccessMarks

\* this step of the turn dispatches a complete, remind or help directive
\* whose integer target is no task of the store
DispatchesToMissingTask ==
    /\ nDone' = nDone + 1
    /\ dispatched'[nDone'].type \in {sComplete, sRemind, sHelp}
    /\ dispatched'[nDone'].task_id > Len(store.tasks)

\* C36: dispatching a complete, remind or help directive whose integer
\* target is no task of the store changes no task and yields no success
\* confirmation.
C36_MissingTargetNotConfirmed ==
    [][DispatchesToMissingTask
           => /\ store'.tasks = store.tasks
              /\ \/ feedback' = feedback
                 \/ ~SuccessConfirmed(feedback'[Len(feedback')])]_vars


\* C37: when a conversational path sets a reminder on task T, T's status
\* after the write is its status before the write: a status another turn has
\* written since the path read T (completed, say) is not reverted.
C37_ReminderKeepsConcurrentStatus ==
    [][(nOps' = nOps + 1 /\ lastOp'.kind = "reminder")
           => store'.tasks[lastOp'.task_id].status
                  = store.tasks[lastOp'.task_id].status]_vars


\* the journal that readers see holds the entry of call c
InJournal(c) ==
    \E k \in 1..Len(StoredJournal(profiles)) :
        StoredJournal(profiles)[k] = JournalEntry(c)

\* C38: when two calls of process_input that interleave have both been
\* accepted and committed (each returned an insight), the stored journal
\* holds the raw input of both.
C38_NoAcceptedUpdateLost ==
    (\A c \in Calls : ppc[c] = "done" /\ pret[c].insight # NoInsight)
        => \A c \in Calls : InJournal(c)


\* the list is what the claim requires of get_tasks on the store st: every
\* task that is not completed once, no completed task, urgencies that never
\* increase
ActiveOnceByUrgency(list, st) ==
    /\ \A id \in 1..Len(st.tasks) :
           st.tasks[id].status # sCompleted
               => Cardinality({k \in 1..Len(list) : list[k] = id}) = 1
    /\ \A k \in 1..Len(list) : st.tasks[list[k]].status # sCompleted
    /\ \A j, k \in 1..Len(list) :
           j < k => st.tasks[list[j]].urgency >= st.tasks[list[k]].urgency

\* C39: in every state of the store get_tasks returns every task that is not
\* completed exactly once, in order of non-increasing urgency, and no
\* completed task; also when a half-completed task has urgency 4.
C39_ActiveTasksOnce == ActiveOnceByUrgency(get_tasks(store), store)


\* the second directive of dTwoDirectives
tNotesTwo ==
    <<"[", "A", "C", "T", "I", "O", "N", ":", "n", "o", "t", "e", "s", ":",
    "2", ":", "n", "]">>

\* kept is the text b without a directive that was recognized at its start,
\* or b itself
KeptOf(b, kept) ==
    \/ kept = b
    \/ /\ StartsWith(b, <<"[">>)
       /\ \E e \in 1..Len(b) :
              /\ IsActionDirective(SubSeq(b, 1, e))
              /\ kept = SubSeq(b, e + 1, Len(b))

\* C40: ChatGPTAgent.process neither loses nor duplicates text. At every
\* delta the fragments it yields, followed by the buffer it keeps, are the
\* old buffer followed by the delta, less at most a directive recognized at
\* the start of the buffer; at the end of the stream the residual buffer is
\* yielded; and nothing is yielded after that.
C40_ChatKeepsText ==
    [][/\ (pc = "stream" /\ rawIn' # rawIn)
            => KeptOf(cbuf \o SubSeq(rawIn', Len(rawIn) + 1, Len(rawIn')),
                      Concat(SubSeq(chunks', Len(chunks) + 1, Len(chunks')))
                      \o cbuf')
       /\ (pc = "stream" /\ rawIn' # rawIn)
            => SubSeq(chunks', 1, Len(chunks)) = chunks
       /\ (pc = "stream" /\ pc' = "flush")
            => Concat(chunks') = Concat(chunks) \o cbuf
       /\ pc # "stream" => chunks' = chunks]_vars

\* the directive at the start of the buffer was left out and the text after
\* it yielded; the unterminated text that came next was held until the stream
\* ended and was then yielded
C40_Witness ==
    /\ pc = "flush"
    /\ rawIn = dTwoDirectives \o dUnterminated
    /\ Len(chunks) = 2
    /\ Concat(chunks) = tNotesTwo \o dUnterminated
    /\ cbuf = dUnterminated


====
